---- MODULE Spec2Model ----
(***************************************************************************)
(* Alx-Polly: the vote-submission protocol, poll creation and the audit    *)
(* side channel, as request handlers running concurrently against one      *)
(* relational store.  Every await on the store is one atomic step of a     *)
(* request; the store evaluates its constraints and triggers inside the    *)
(* statement that fires them.                                              *)
(***************************************************************************)
EXTENDS Integers, Sequences, FiniteSets, TLC

\* ---------------------------------------------------------------- bounds
\* concurrent requests of the voting specification (Spec)
NumReq == 2
\* requests of the request-gate specification (SpecGate)
NumGate == 1
\* calls that fail in a run of SpecGate (the store or the identity verifier
\* returns an error or throws)
MaxFailures == 1
\* votes an option of the tallied poll has received (SpecTally)
MaxCount == 23
\* votes an option has received when the readers of SpecRead arrive
MaxSeedVotes == 1
\* characters of a text of a submitted poll (SpecValidate)
MaxLen == 4
\* rows of one insert into poll_options by the owner of a poll (SpecOptions)
MaxRows == 2

\* ------------------------------------------------------ program constants
\* polls/route.ts:91  token.length < 10
MinTokenLen == 10
\* polls/route.ts:50,60  10KB limit
MaxPayload == 10000
\* 003_add_triggers_and_functions.sql:62  option_count > 10
MaxOptionsPerPoll == 10
\* api-client-examples.ts:491-492  title .min(3) .max(200)
TitleMin == 3
TitleMax == 200
\* api-client-examples.ts:507  description .max(500)
DescriptionMax == 500
\* api-client-examples.ts:473-474  option .min(1) .max(100)
OptionMin == 1
OptionMax == 100
\* api-client-examples.ts:521-522  options .min(2) .max(10)
OptionsMin == 2
OptionsMax == 10

\* the requests of a run, numbered in their order of arrival
Slots == 1 .. (IF NumReq > NumGate THEN NumReq ELSE NumGate)

\* resolved identities known to the identity verifier (auth.users)
Users == {1, 2}

\* ------------------------------------------------------------ the store
\* rows present before any request of the run: poll 1 is active and owns
\* options 1 and 2, poll 2 was deactivated by its owner and owns option 3
SeedPolls == (1 :> [is_active |-> TRUE, owner_id |-> 1]) @@
             (2 :> [is_active |-> FALSE, owner_id |-> 2])

SeedOptions == (1 :> [poll_id |-> 1, votes |-> 0]) @@
               (2 :> [poll_id |-> 1, votes |-> 1]) @@
               (3 :> [poll_id |-> 2, votes |-> 0])

\* user 2 has voted on poll 1, for option 2
SeedVotes == {[id |-> 0, poll_id |-> 1, option_id |-> 2, user_id |-> 2]}

\* gen_random_uuid(): the identifiers given to the rows a request creates
NewPollId(r) == 2 + r

NewOptionId(r, i) == 10 * r + i

VARIABLES
  polls,         \* polls relation: id -> [is_active, owner_id]
  poll_options,  \* poll_options relation: id -> [poll_id, votes]
  votes,         \* votes relation (poll_id, option_id, user_id), set of rows
  legacy_votes,  \* votes relation of the body-keyed endpoint (poll_id, option, user_id)
  audit_logs,    \* audit_logs relation, set of rows
  rq,            \* the requests: inputs, handler locals, position, response
  budget,        \* failed calls the run may still contain
  state,         \* PollVotingManager.state of the one manager of the page
  call           \* the invocations of submitVote: position and return value

vars == <<polls, poll_options, votes, legacy_votes, audit_logs, rq, budget,
          state, call>>

db == <<polls, poll_options, votes, legacy_votes, audit_logs>>

client == <<state, call>>

\* outcome of one call through the network client: a result without error,
\* a result carrying an error object, or a thrown exception
Outcomes == {"ok", "error", "throw"}

\* the outcomes the next call can have
Outs == IF budget > 0 THEN Outcomes ELSE {"ok"}

Charge(out) == budget' = IF out = "ok" THEN budget ELSE budget - 1

\* a request that was answered before it called the verifier met no outcome
ChargeCall(r, out) ==
  /\ rq'[r].authCalls = 0 => out = "ok"
  /\ Charge(out)

\* ------------------------------------------------------------- requests
NoHeader == [scheme |-> "none", len |-> 0, sub |-> 0]

\* "Token abc"
TokenAbc == [scheme |-> "Token ", len |-> 3, sub |-> 0]

\* "Bearer abc"
BearerShort == [scheme |-> "Bearer ", len |-> 3, sub |-> 0]

\* "Bearer <text that is no credential>"
BearerJunk == [scheme |-> "Bearer ", len |-> MinTokenLen + 2, sub |-> 0]

\* "Bearer <credential of u>"
BearerOf(u) == [scheme |-> "Bearer ", len |-> MinTokenLen + 2, sub |-> u]

\* "<credential of u>", no scheme
BareOf(u) == [scheme |-> "", len |-> MinTokenLen + 2, sub |-> u]

GoodHeaders == {BearerOf(u) : u \in Users}

AllHeaders == {NoHeader, TokenAbc, BearerShort, BearerJunk} \cup GoodHeaders
                \cup {BareOf(1)}

\* ------------------------------------ PollVotingManager: construction
\* null, kept apart from every text
null == "null"

\* the invocations of submitVote, numbered in the order they are made
Calls == 1 .. NumReq

\* constructor(pollId), lines 399-408
NewState(pollId) ==
  [pollId |-> pollId, selectedOptionId |-> null, isVoting |-> FALSE,
   hasVoted |-> FALSE, error |-> null, results |-> null]

\* a page that has built its manager and called nothing; of an invocation,
\* sent tells whether the call it waits for went out as a request, and
\* requests counts the requests it sent
Constructed ==
  /\ state = NewState("uuid-a")
  /\ call = [c \in Calls |-> [pc |-> "idle", value |-> FALSE,
                               sent |-> FALSE, requests |-> 0]]

IdleReq == [kind |-> "none", pc |-> "idle", hdr |-> NoHeader, pollId |-> 0,
            optionId |-> 0, size |-> 0, clen |-> 0, valid |-> TRUE,
            userId |-> 0, inserted |-> FALSE, nopts |-> 0, status |-> 0, message |-> "",
            authCalls |-> 0, dbCalls |-> 0, results |-> <<>>,
            resubmits |-> FALSE, total |-> 0, body |-> <<>>, data |-> <<>>,
            bytes |-> 0, detail |-> "", threw |-> {}]

Seeded ==
  /\ polls = SeedPolls
  /\ poll_options = SeedOptions
  /\ votes = SeedVotes
  /\ legacy_votes = {}
  /\ audit_logs = {}
  /\ rq = [r \in Slots |-> IdleReq]
  /\ Constructed

\* every call to the store and to the verifier completes
Init == Seeded /\ budget = 0

\* up to MaxFailures calls fail
InitGate == Seeded /\ budget = MaxFailures

\* threw: the steps of the vote handler at which an exception was raised
Raised(q, out, step) ==
  IF out = "throw" THEN [q EXCEPT !.threw = @ \cup {step}] ELSE q

\* NextResponse.json(body, {status}): the request is answered
Respond(q, st, msg) == [q EXCEPT !.pc = "done", !.status = st, !.message = msg]

\* requests are numbered in their order of arrival
Arrives(r) ==
  /\ rq[r].pc = "idle"
  /\ IF r = 1 THEN TRUE ELSE rq[r - 1].pc # "idle"

\* ------------------------------------------------- authentication gate
\* header?.replace("Bearer ", ""): the text handed on as the token;
\* a header that does not contain "Bearer " is handed on whole
StripBearer(h) ==
  IF h.scheme = "none"
    THEN [defined |-> FALSE, prefix |-> "", len |-> 0, sub |-> 0]
    ELSE IF h.scheme = "Bearer "
      THEN [defined |-> TRUE, prefix |-> "", len |-> h.len, sub |-> h.sub]
      ELSE [defined |-> TRUE, prefix |-> h.scheme,
            len |-> Len(h.scheme) + h.len, sub |-> h.sub]

\* !token
Falsy(tok) == ~tok.defined \/ tok.len = 0

\* supabaseServerClient.auth.getUser(token): the identity verifier resolves
\* a user only for a text that is exactly a credential, and only when the
\* call itself went through; 0 stands for "no user"
GetUser(tok, out) ==
  IF out = "ok" /\ tok.defined /\ tok.prefix = "" /\ tok.sub \in Users
    THEN tok.sub ELSE 0

\* the catch block of every handler of alx-polling-app
Caught(q) == Respond(q, 500, "An unexpected error occurred")

\* a request body that request.json() cannot parse
NotJson == -1

\* a gate that reads the poll before it looks at the credential
VoteGate_poll_first(q, out) ==
  LET tok == StripBearer(q.hdr)
      q0 == [q EXCEPT !.dbCalls = @ + 1]
  IN
  IF q.optionId = NotJson THEN Caught([q EXCEPT !.threw = {"json"}])
  ELSE IF ~q.valid THEN Respond(q, 400, "Validation failed")
  ELSE IF Falsy(tok) THEN Respond(q0, 401, "No token provided")
  ELSE LET q1 == [q0 EXCEPT !.authCalls = @ + 1] IN
       IF out = "throw" THEN Caught(q1)
       ELSE IF GetUser(tok, out) = 0 THEN Respond(q1, 401, "Invalid token")
       ELSE [q1 EXCEPT !.userId = GetUser(tok, out), !.pc = "readPoll"]

\* vote/route.ts lines 59-90: the body is parsed and validated, then the
\* caller is authenticated
VoteGate(q, out) ==
  LET tok == StripBearer(q.hdr) IN
  IF q.optionId = NotJson THEN Caught([q EXCEPT !.threw = {"json"}])
  ELSE IF ~q.valid THEN Respond(q, 400, "Validation failed")
  ELSE IF Falsy(tok) THEN Respond(q, 401, "No token provided")
  ELSE LET q1 == [q EXCEPT !.authCalls = @ + 1] IN
       IF out = "throw" THEN Caught(q1)
       ELSE IF GetUser(tok, out) = 0 THEN Respond(q1, 401, "Invalid token")
       ELSE [q1 EXCEPT !.userId = GetUser(tok, out), !.pc = "readPoll"]

\* ------------------------------------------- store: the votes relation
\* the votes relation without its uniqueness constraint
unique_user_poll_vote_dropped(rows, row) == TRUE

\* CONSTRAINT unique_user_poll_vote UNIQUE (poll_id, user_id)
unique_user_poll_vote(rows, row) ==
  \A v \in rows : ~(v.poll_id = row.poll_id /\ v.user_id = row.user_id)

\* poll_id REFERENCES polls(id), option_id REFERENCES poll_options(id)
VoteReferencesHold(row) ==
  row.poll_id \in DOMAIN polls /\ row.option_id \in DOMAIN poll_options

\* the insert without its trigger
increment_vote_count_lost(opts, row) == opts

\* AFTER INSERT ON votes FOR EACH ROW: votes = votes + 1 WHERE id = NEW.option_id
increment_vote_count(opts, row) ==
  [o \in DOMAIN opts |->
     IF o = row.option_id THEN [opts[o] EXCEPT !.votes = @ + 1] ELSE opts[o]]

\* an insert that reports a duplicate only for the same option
VoteInsertCode_per_option(row, out) ==
  IF out = "throw" THEN "throw"
  ELSE IF out = "error" THEN "other"
  ELSE IF \E v \in votes : /\ v.poll_id = row.poll_id
                           /\ v.user_id = row.user_id
                           /\ v.option_id = row.option_id THEN "23505"
  ELSE IF ~VoteReferencesHold(row) THEN "23503"
  ELSE "ok"

\* the error class the store reports for INSERT INTO votes: the unique index
\* is checked when the row is written, the references when the statement
\* ends; "other" is any failure that no constraint raised
VoteInsertCode(row, out) ==
  IF out = "throw" THEN "throw"
  ELSE IF out = "error" THEN "other"
  ELSE IF ~unique_user_poll_vote(votes, row) THEN "23505"
  ELSE IF ~VoteReferencesHold(row) THEN "23503"
  ELSE "ok"

\* the classification without its case for 23503
handleVoteError_two_classes(q, code) ==
  IF code = "23505" THEN Respond(q, 409, "You have already voted on this poll")
  ELSE Respond(q, 500, "Failed to submit vote")

\* error-handler.ts handleVoteError
handleVoteError(q, code) ==
  IF code = "23505" THEN Respond(q, 409, "You have already voted on this poll")
  ELSE IF code = "23503" THEN Respond(q, 400, "Invalid poll or option")
  ELSE Respond(q, 500, "Failed to submit vote")

\* .from('poll_options').select(...).eq('poll_id', p).order('votes', desc):
\* every order of the poll's options with non-increasing counters (the store
\* leaves the order of equal counters open)
OptionsOf(p) == {o \in DOMAIN poll_options : poll_options[o].poll_id = p}

OrderedByVotes(p) ==
  LET ids == OptionsOf(p)
      n == Cardinality(ids)
  IN {s \in [1 .. n -> ids] :
        /\ \A i, j \in 1 .. n : i # j => s[i] # s[j]
        /\ \A i \in 1 .. n : \A j \in 1 .. n :
             i < j => poll_options[s[i]].votes >= poll_options[s[j]].votes}

ResultRows(s) == [i \in DOMAIN s |-> [id |-> s[i], votes |-> poll_options[s[i]].votes]]

\* a listing without its .eq('is_active', true)
ListedPolls_every_poll == DOMAIN polls

\* polls/route.ts GET, .eq('is_active', true): the polls a caller is shown
ListedPolls == {p \in DOMAIN polls : polls[p].is_active}

\* ------------------------------------- POST /polls/{id}/vote (vote/route.ts)
\* the caller of header h has been answered 409 for this very vote before
Resubmission(h, p, o) ==
  \E r \in Slots :
    /\ rq[r].kind = "vote" /\ rq[r].pc = "done" /\ rq[r].status = 409
    /\ rq[r].pollId = p /\ rq[r].optionId = o
    /\ rq[r].userId = GetUser(StripBearer(h), "ok")

\* lines 53-90: the request arrives, is validated and authenticated
VoteBegin(r, hdrs, pollIds, bodies) ==
  /\ Arrives(r)
  /\ \E h \in hdrs, p \in pollIds, o \in bodies, out \in Outs :
       /\ rq' = [rq EXCEPT ![r] =
                Raised(VoteGate([IdleReq EXCEPT !.kind = "vote", !.hdr = h,
                                   !.pollId = p, !.optionId = o,
                                   !.valid = (o # 0),
                                   !.resubmits = Resubmission(h, p, o)],
                                out),
                       out, "auth")]
       /\ ChargeCall(r, out)
  /\ UNCHANGED <<db, client>>

\* the guard without its test of is_active
PollGuard_any_state(q, out) ==
  LET q1 == [q EXCEPT !.dbCalls = @ + 1] IN
  IF out = "throw" THEN Caught(q1)
  ELSE IF out = "error" \/ q.pollId \notin DOMAIN polls
    THEN Respond(q1, 404, "Poll not found")
  ELSE [q1 EXCEPT !.pc = "readOption"]

\* lines 92-108: poll exists and is active
PollGuard(q, out) ==
  LET q1 == [q EXCEPT !.dbCalls = @ + 1] IN
  IF out = "throw" THEN Caught(q1)
  ELSE IF out = "error" \/ q.pollId \notin DOMAIN polls
    THEN Respond(q1, 404, "Poll not found")
  ELSE IF ~polls[q.pollId].is_active
    THEN Respond(q1, 400, "Poll is no longer active")
  ELSE [q1 EXCEPT !.pc = "readOption"]

VoteReadPoll(r) ==
  /\ rq[r].pc = "readPoll"
  /\ \E out \in Outs :
       /\ Charge(out)
       /\ rq' = [rq EXCEPT ![r] = Raised(PollGuard(rq[r], out), out, "readPoll")]
  /\ UNCHANGED <<db, client>>

\* the guard without its .eq('poll_id', pollId)
OptionGuard_any_poll(q, out) ==
  LET q1 == [q EXCEPT !.dbCalls = @ + 1] IN
  IF out = "throw" THEN Caught(q1)
  ELSE IF out = "error" \/ q.optionId \notin DOMAIN poll_options
    THEN Respond(q1, 400, "Invalid option for this poll")
  ELSE [q1 EXCEPT !.pc = "insertVote"]

\* lines 110-123: option exists and belongs to this poll
OptionGuard(q, out) ==
  LET q1 == [q EXCEPT !.dbCalls = @ + 1] IN
  IF out = "throw" THEN Caught(q1)
  ELSE IF \/ out = "error"
          \/ q.optionId \notin DOMAIN poll_options
          \/ poll_options[q.optionId].poll_id # q.pollId
    THEN Respond(q1, 400, "Invalid option for this poll")
  ELSE [q1 EXCEPT !.pc = "insertVote"]

VoteReadOption(r) ==
  /\ rq[r].pc = "readOption"
  /\ \E out \in Outs :
       /\ Charge(out)
       /\ rq' = [rq EXCEPT ![r] =
                    Raised(OptionGuard(rq[r], out), out, "readOption")]
  /\ UNCHANGED <<db, client>>

\* lines 125-146: the single unconditional insert and its classification
VoteRow(r) == [id |-> r, poll_id |-> rq[r].pollId,
               option_id |-> rq[r].optionId, user_id |-> rq[r].userId]

\* a handler that goes on to the audit write after a duplicate
VoteInsertResponse_audits_duplicate(q, code) ==
  LET q1 == [q EXCEPT !.dbCalls = @ + 1] IN
  IF code = "throw" THEN Caught(q1)
  ELSE IF code = "23505" THEN [q1 EXCEPT !.pc = "audit"]
  ELSE IF code # "ok" THEN handleVoteError(q1, code)
  ELSE [q1 EXCEPT !.pc = "audit", !.inserted = TRUE]

VoteInsertResponse(q, code) ==
  LET q1 == [q EXCEPT !.dbCalls = @ + 1] IN
  IF code = "throw" THEN Caught(q1)
  ELSE IF code = "23505"
    THEN Respond(q1, 409, "You have already voted on this poll")
  ELSE IF code # "ok" THEN handleVoteError(q1, code)
  ELSE [q1 EXCEPT !.pc = "audit", !.inserted = TRUE]

\* an insert that, on a duplicate, withdraws the voter's earlier vote
VotesAfterInsert_withdrawing(row, code) ==
  IF code = "ok" THEN votes \cup {row}
  ELSE IF code = "23505"
    THEN {v \in votes : ~(v.poll_id = row.poll_id /\ v.user_id = row.user_id)}
  ELSE votes

\* INSERT INTO votes and its AFTER INSERT trigger are one statement: the
\* row and the counter change together, or neither does
VotesAfterInsert(row, code) == IF code = "ok" THEN votes \cup {row} ELSE votes

\* an insert whose counter update survives the refusal of the row
OptionsAfterInsert_counting_refused(row, code) ==
  increment_vote_count(poll_options, row)

OptionsAfterInsert(row, code) ==
  IF code = "ok" THEN increment_vote_count(poll_options, row) ELSE poll_options

VoteInsert(r) ==
  /\ rq[r].pc = "insertVote"
  /\ \E out \in Outs :
       /\ Charge(out)
       /\ LET code == VoteInsertCode(VoteRow(r), out) IN
          /\ rq' = [rq EXCEPT ![r] =
                       Raised(VoteInsertResponse(rq[r], code), out, "insertVote")]
          /\ votes' = VotesAfterInsert(VoteRow(r), code)
          /\ poll_options' = OptionsAfterInsert(VoteRow(r), code)
  /\ UNCHANGED <<polls, legacy_votes, audit_logs, client>>

\* audit-logger.ts AuditLogger.log: the insert's error is logged, a thrown
\* exception is caught; nothing reaches the caller
AuditLoggerLog(entry, out) ==
  IF out = "ok" THEN audit_logs \cup {entry} ELSE audit_logs

\* an audit write whose exception reaches the handler's catch block
VoteAfterAudit_propagating(q, out) ==
  IF out = "throw" THEN Caught([q EXCEPT !.dbCalls = @ + 1])
  ELSE [q EXCEPT !.pc = "results", !.dbCalls = @ + 1]

\* lines 148-156: whatever the audit write did, the handler goes on to
\* read the refreshed tallies
VoteAfterAudit(q, out) == [q EXCEPT !.pc = "results", !.dbCalls = @ + 1]

\* lines 148-154: auditLog.vote inside its own try/catch
VoteAudit(r) ==
  /\ rq[r].pc = "audit"
  /\ rq[r].kind = "vote"
  /\ \E out \in Outs :
       /\ Charge(out)
       /\ audit_logs' = AuditLoggerLog([id |-> r, user_id |-> rq[r].userId,
                                         action |-> "vote_submitted",
                                         target_id |-> rq[r].pollId], out)
       /\ rq' = [rq EXCEPT ![r] = Raised(VoteAfterAudit(rq[r], out), out, "audit")]
  /\ UNCHANGED <<polls, poll_options, votes, legacy_votes, client>>

\* lines 156-185: refreshed tallies, then the 201 response
VoteResults(r) ==
  /\ rq[r].pc = "results"
  /\ \E out \in Outs :
       /\ Charge(out)
       /\ LET q1 == [rq[r] EXCEPT !.dbCalls = @ + 1] IN
          IF out = "throw"
            THEN rq' = [rq EXCEPT ![r] = Raised(Caught(q1), out, "results")]
          ELSE IF out = "error"
            THEN rq' = [rq EXCEPT ![r] =
                          Respond(q1, 201, "Vote submitted successfully!")]
          ELSE \E s \in OrderedByVotes(rq[r].pollId) :
                 rq' = [rq EXCEPT ![r] =
                          Respond([q1 EXCEPT !.results = ResultRows(s)],
                                  201, "Vote submitted successfully!")]
  /\ UNCHANGED <<db, client>>

\* ------------------------- validation (api-client-examples.ts)
\* a text is a sequence of characters; the characters the runs submit
Alphabet == {"<", ">", "a", "A", " "}

TextsUpTo(n) == UNION {[1 .. k -> Alphabet] : k \in 0 .. n}

\* the position of the first ">" of a text that has one
FirstClose(s) == CHOOSE j \in 1 .. Len(s) :
                   s[j] = ">" /\ \A k \in 1 .. (j - 1) : s[k] # ">"

\* the first tag of a text: the leftmost "<" that a ">" follows
FirstOpen(s) == CHOOSE i \in 1 .. Len(s) :
                  /\ s[i] = "<" /\ \E j \in i .. Len(s) : s[j] = ">"
                  /\ \A k \in 1 .. (i - 1) :
                       ~(s[k] = "<" /\ \E j \in k .. Len(s) : s[j] = ">")

RECURSIVE sanitize(_)
\* the replacement without the g flag: the first tag only
sanitize_first_tag(html) ==
  IF \E i, j \in 1 .. Len(html) : i < j /\ html[i] = "<" /\ html[j] = ">"
    THEN LET i == FirstOpen(html)
             rest == SubSeq(html, i, Len(html))
         IN SubSeq(html, 1, i - 1)
              \o SubSeq(rest, FirstClose(rest) + 1, Len(rest))
    ELSE html

\* lines 457-463, server side: html.replace(/<[^>]*>/g, '')
sanitize(html) ==
  IF html = <<>> THEN <<>>
  ELSE IF html[1] = "<" /\ \E j \in 2 .. Len(html) : html[j] = ">"
    THEN sanitize(SubSeq(html, FirstClose(html) + 1, Len(html)))
  ELSE <<html[1]>> \o sanitize(Tail(html))

RECURSIVE trimStart(_)
trimStart(s) ==
  IF s # <<>> /\ s[1] = " " THEN trimStart(Tail(s)) ELSE s

RECURSIVE trimEnd(_)
trimEnd(s) ==
  IF s # <<>> /\ s[Len(s)] = " " THEN trimEnd(SubSeq(s, 1, Len(s) - 1)) ELSE s

\* String.prototype.trim
trim(s) == trimEnd(trimStart(s))

\* the upper-case letters of the texts of the runs
LowerOf == [A |-> "a", N |-> "n", P |-> "p", T |-> "t", V |-> "v"]

\* String.prototype.toLowerCase
toLowerCase(s) ==
  [i \in DOMAIN s |-> IF s[i] \in DOMAIN LowerOf THEN LowerOf[s[i]] ELSE s[i]]

\* the .transform of every text field: sanitize, then trim
Transformed(val) == trim(sanitize(val))

\* lines 472-486
pollOptionSchema(val) ==
  [success |-> /\ Len(val) >= OptionMin
               /\ Len(val) <= OptionMax
               /\ Len(trim(val)) > 0,
   data |-> Transformed(val)]

\* lines 490-503
titleSchema(val) ==
  [success |-> /\ Len(val) >= TitleMin
               /\ Len(val) <= TitleMax
               /\ Len(trim(val)) >= TitleMin,
   data |-> Transformed(val)]

\* lines 506-518; an absent description is the empty text
descriptionSchema(val) ==
  [success |-> Len(val) <= DescriptionMax,
   data |-> IF val = <<>> THEN <<>> ELSE Transformed(val)]

\* lines 520-537: the options are parsed one by one, then the array is
\* checked on the parsed options
optionsSchema(vals) ==
  LET parsed == [i \in DOMAIN vals |-> pollOptionSchema(vals[i])]
      out == [i \in DOMAIN vals |-> parsed[i].data]
      texts == [i \in DOMAIN vals |-> toLowerCase(trim(out[i]))]
  IN [success |-> /\ Len(vals) >= OptionsMin
                  /\ Len(vals) <= OptionsMax
                  /\ \A i \in DOMAIN vals : parsed[i].success
                  /\ \A i, j \in DOMAIN vals : i # j => texts[i] # texts[j]
                  /\ \A i \in DOMAIN vals : Len(trim(out[i])) > 0,
      data |-> out]

\* lines 489-538 and 556-580: createPollSchema.safeParse
validateAndSanitizePoll(body) ==
  LET t == titleSchema(body.title)
      d == descriptionSchema(body.description)
      o == optionsSchema(body.options)
  IN [success |-> t.success /\ d.success /\ o.success,
      data |-> [title |-> t.data, description |-> d.data, options |-> o.data]]

\* a text of n letters
Letters(n) == [i \in 1 .. n |-> "a"]

\* a script element before the text: '<script>alert(1)</script>Vote Now'
ScriptTitle ==
  <<"<", "s", "c", "r", "i", "p", "t", ">", "a", "l", "e", "r", "t", "(",
    "1", ")", "<", "/", "s", "c", "r", "i", "p", "t", ">", "V", "o", "t",
    "e", " ", "N", "o", "w">>

\* part_002 line 404: title: '<h1>Test Poll</h1>'
HeadingTitle ==
  <<"<", "h", "1", ">", "T", "e", "s", "t", " ", "P", "o", "l", "l", "<",
    "/", "h", "1", ">">>

\* the bodies the runs submit: every short text as the title, as the
\* description and as an option of an otherwise well-formed poll, and
\* polls of one to eleven distinct options
PollBodies ==
  LET texts == TextsUpTo(MaxLen) \cup {ScriptTitle, HeadingTitle}
      title == Letters(TitleMin)
      two == <<Letters(1), Letters(2)>>
  IN {[title |-> s, description |-> <<>>, options |-> two] : s \in texts}
     \cup {[title |-> title, description |-> s, options |-> two] : s \in texts}
     \cup {[title |-> title, description |-> <<>>, options |-> <<s, o>>] :
             s \in texts, o \in {Letters(1), <<"A">>}}
     \cup {[title |-> title, description |-> <<>>,
            options |-> [i \in 1 .. n |-> Letters(i)]] :
             n \in {1, OptionsMax, OptionsMax + 1}}

\* polls/route.ts line 57: the body of a POST /polls request is read
ReceivePoll(r) ==
  /\ Arrives(r)
  /\ \E body \in PollBodies :
       rq' = [rq EXCEPT ![r] = [IdleReq EXCEPT !.kind = "create",
                                  !.pc = "validate", !.body = body]]
  /\ UNCHANGED <<db, budget, client>>

\* polls/route.ts lines 67-79: validateAndSanitizePoll(body) and the 400
ValidatePoll(r) ==
  /\ rq[r].pc = "validate"
  /\ LET v == validateAndSanitizePoll(rq[r].body) IN
     rq' = [rq EXCEPT ![r] =
              IF v.success
                THEN [rq[r] EXCEPT !.pc = "validated", !.data = v.data]
                ELSE Respond([rq[r] EXCEPT !.valid = FALSE],
                             400, "Validation failed")]
  /\ UNCHANGED <<db, budget, client>>

\* ------------------------------------------ POST /polls (polls/route.ts)
\* lines 48-104: size limits, body validation, then authentication;
\* clen = 0 stands for a request without Content-Length
CreateGate(q, out) ==
  IF q.clen # 0 /\ q.clen > MaxPayload THEN Respond(q, 413, "Request too large")
  ELSE IF q.size > MaxPayload THEN Respond(q, 413, "Request payload too large")
  ELSE IF ~q.valid THEN Respond(q, 400, "Validation failed")
  ELSE IF q.hdr.scheme # "Bearer "
    THEN Respond(q, 401, "Invalid authorization header format")
  ELSE IF q.hdr.len < MinTokenLen THEN Respond(q, 401, "Invalid token format")
  ELSE LET q1 == [q EXCEPT !.authCalls = @ + 1]
           u == GetUser(StripBearer(q.hdr), out)
       IN IF out = "throw" THEN Caught(q1)
          ELSE IF u = 0 THEN Respond(q1, 401, "Unauthorized - Invalid token")
          ELSE [q1 EXCEPT !.userId = u, !.pc = "insertPoll"]

\* the numbers of options a validated body carries in the runs explored
OptionCounts == {2}

\* a payload has its bytes on the wire and the length of JSON.stringify of
\* its parsed body (line 60), which leaves out the white space between the
\* tokens of the payload and counts a character of several bytes once
PayloadSizes ==
  {[bytes |-> b, length |-> n] :
     b \in {MaxPayload, MaxPayload + 1}, n \in {MaxPayload, MaxPayload + 1}}
  \ {[bytes |-> MaxPayload, length |-> MaxPayload + 1]}

ExactPayload == {[bytes |-> MaxPayload, length |-> MaxPayload]}

\* payloads that stringify to as many characters as they have bytes
PlainPayloads ==
  {[bytes |-> n, length |-> n] : n \in {MaxPayload, MaxPayload + 1}}

ContentLengths == {0, MaxPayload, MaxPayload + 1}

CreateBegin(r, hdrs, sizes, clens, valids) ==
  /\ Arrives(r)
  /\ \E h \in hdrs, sz \in sizes, cl \in clens, ok \in valids,
        n \in OptionCounts, out \in Outs :
       /\ rq' = [rq EXCEPT ![r] =
                CreateGate([IdleReq EXCEPT !.kind = "create", !.hdr = h,
                              !.size = sz.length, !.bytes = sz.bytes,
                              !.clen = cl, !.valid = ok,
                              !.nopts = n, !.pollId = NewPollId(r)],
                           out)]
       /\ ChargeCall(r, out)
  /\ UNCHANGED <<db, client>>

\* lines 108-126: the poll row, owned by the caller, active
CreateInsertPoll(r) ==
  /\ rq[r].pc = "insertPoll"
  /\ \E out \in Outs :
       /\ Charge(out)
       /\ LET q1 == [rq[r] EXCEPT !.dbCalls = @ + 1] IN
          IF out = "throw"
            THEN rq' = [rq EXCEPT ![r] = Caught(q1)] /\ UNCHANGED polls
          ELSE IF out = "error"
            THEN /\ rq' = [rq EXCEPT ![r] = Respond(q1, 500, "Failed to create poll")]
                 /\ UNCHANGED polls
          ELSE /\ polls' = polls @@ (rq[r].pollId :>
                             [is_active |-> TRUE, owner_id |-> rq[r].userId])
               /\ rq' = [rq EXCEPT ![r] = [q1 EXCEPT !.pc = "insertOptions",
                                                     !.inserted = TRUE]]
  /\ UNCHANGED <<poll_options, votes, legacy_votes, audit_logs, client>>

\* validate_poll_options, BEFORE INSERT FOR EACH ROW: the k-th row of a
\* statement sees the rows before it; it raises when it counts more than 10
validate_poll_options(p, n) ==
  \A k \in 1 .. n : ~(Cardinality(OptionsOf(p)) + (k - 1) > MaxOptionsPerPoll)

\* lines 128-136: optionsData, votes: 0
OptionsData(r) ==
  [o \in {NewOptionId(r, i) : i \in 1 .. rq[r].nopts} |->
     [poll_id |-> rq[r].pollId, votes |-> 0]]

\* lines 138-148: the option rows, one statement
CreateInsertOptions(r) ==
  /\ rq[r].pc = "insertOptions"
  /\ \E out \in Outs :
       /\ Charge(out)
       /\ LET q1 == [rq[r] EXCEPT !.dbCalls = @ + 1]
              accepted == /\ out = "ok"
                          /\ rq[r].pollId \in DOMAIN polls
                          /\ validate_poll_options(rq[r].pollId, rq[r].nopts)
          IN IF out = "throw"
               THEN rq' = [rq EXCEPT ![r] = Caught(q1)] /\ UNCHANGED poll_options
             ELSE IF ~accepted
               THEN /\ rq' = [rq EXCEPT ![r] =
                                Respond(q1, 500, "Poll created but options failed")]
                    /\ UNCHANGED poll_options
             ELSE /\ poll_options' = poll_options @@ OptionsData(r)
                  /\ rq' = [rq EXCEPT ![r] = [q1 EXCEPT !.pc = "audit"]]
  /\ UNCHANGED <<polls, votes, legacy_votes, audit_logs, client>>

\* lines 150-171: whatever the audit write did, the response is 201
CreateAfterAudit(q, out) ==
  Respond([q EXCEPT !.dbCalls = @ + 1], 201, "Poll created successfully!")

\* lines 150-156: auditLog.pollCreated inside its own try/catch
CreateAudit(r) ==
  /\ rq[r].pc = "audit"
  /\ rq[r].kind = "create"
  /\ \E out \in Outs :
       /\ Charge(out)
       /\ audit_logs' = AuditLoggerLog([id |-> r, user_id |-> rq[r].userId,
                                         action |-> "poll_created",
                                         target_id |-> rq[r].pollId], out)
       /\ rq' = [rq EXCEPT ![r] = CreateAfterAudit(rq[r], out)]
  /\ UNCHANGED <<polls, poll_options, votes, legacy_votes, client>>

\* ------------------------------- POST /api/vote (poll_id in the body)
\* the handler of app/api/vote/route.ts, cited by the lines of its
\* documented copy
\* lines 51-64: authentication, then body validation
BodyGate(q, out) ==
  LET tok == StripBearer(q.hdr) IN
  IF Falsy(tok) THEN Respond(q, 401, "Unauthorized")
  ELSE LET q1 == [q EXCEPT !.authCalls = @ + 1] IN
       IF out = "throw" THEN Respond(q1, 500, "Internal server error")
       ELSE IF GetUser(tok, out) = 0 THEN Respond(q1, 401, "Unauthorized")
       ELSE IF ~q.valid THEN Respond(q1, 400, "Invalid input")
       ELSE [q1 EXCEPT !.userId = GetUser(tok, out), !.pc = "insertBodyVote"]

\* the option texts callers submit
OptionTexts == {1, 2}

BodyBegin(r, hdrs, valids) ==
  /\ Arrives(r)
  /\ \E h \in hdrs, p \in DOMAIN SeedPolls, o \in OptionTexts, ok \in valids,
        out \in Outs :
       /\ rq' = [rq EXCEPT ![r] =
                BodyGate([IdleReq EXCEPT !.kind = "bodyvote", !.hdr = h,
                            !.pollId = p, !.optionId = o, !.valid = ok], out)]
       /\ ChargeCall(r, out)
  /\ UNCHANGED <<db, client>>

LegacyRow(r) == [id |-> r, poll_id |-> rq[r].pollId,
                 option |-> rq[r].optionId, user_id |-> rq[r].userId]

\* lines 66-78: the insert; an error is a duplicate when its code is 23505
\* or when its message mentions "duplicate" or "unique"
BodyInsert(r) ==
  /\ rq[r].pc = "insertBodyVote"
  /\ \E out \in Outs, mentionsDuplicate \in BOOLEAN :
       /\ Charge(out)
       /\ LET q1 == [rq[r] EXCEPT !.dbCalls = @ + 1] IN
          IF out = "throw"
            THEN /\ rq' = [rq EXCEPT ![r] = Respond(q1, 500, "Internal server error")]
                 /\ UNCHANGED legacy_votes
          ELSE IF out = "ok" /\ ~unique_user_poll_vote(legacy_votes, LegacyRow(r))
            THEN /\ rq' = [rq EXCEPT ![r] = Respond(q1, 409, "User already voted")]
                 /\ UNCHANGED legacy_votes
          ELSE IF out = "error"
            THEN /\ rq' = [rq EXCEPT ![r] =
                             IF mentionsDuplicate
                               THEN Respond(q1, 409, "User already voted")
                               ELSE Respond(q1, 500, "Failed to submit vote")]
                 /\ UNCHANGED legacy_votes
          ELSE /\ legacy_votes' = legacy_votes \cup {LegacyRow(r)}
               /\ rq' = [rq EXCEPT ![r] = [q1 EXCEPT !.pc = "bodyAudit",
                                                     !.inserted = TRUE]]
  /\ UNCHANGED <<polls, poll_options, votes, audit_logs, client>>

\* lines 80-90: the audit insert is awaited without a try/catch of its own
BodyAudit(r) ==
  /\ rq[r].pc = "bodyAudit"
  /\ \E out \in Outs :
       /\ Charge(out)
       /\ LET q1 == [rq[r] EXCEPT !.dbCalls = @ + 1] IN
          /\ audit_logs' = IF out = "ok"
                             THEN audit_logs \cup {[id |-> r, user_id |-> rq[r].userId,
                                                    action |-> "vote",
                                                    target_id |-> rq[r].pollId]}
                             ELSE audit_logs
          /\ rq' = [rq EXCEPT ![r] =
                      IF out = "throw" THEN Respond(q1, 500, "Internal server error")
                      ELSE Respond(q1, 201, "")]
  /\ UNCHANGED <<polls, poll_options, votes, legacy_votes, client>>

\* --------------------------------------------- Number arithmetic
\* vote/route.ts line 242 computes in IEEE 754 binary64.  A positive Number
\* is its significand, 53 binary digits of which the first is 1, and the
\* exponent exp of that first digit.  The significand is kept in three
\* limbs so that no intermediate value leaves 32 bits:
\* significand = hi * 2^(mid + lo digits) + mid * 2^(lo digits) + lo
Limb == [hi |-> 18, mid |-> 17, lo |-> 18]

SignificandBits == Limb.hi + Limb.mid + Limb.lo

RECURSIVE Pow2(_)
Pow2(n) == IF n = 0 THEN 1 ELSE 2 * Pow2(n - 1)

\* the next Number above num; a carry out of all digits opens the next binade
RoundUp(num) ==
  LET lo == num.lo + 1
      mid == num.mid + lo \div Pow2(Limb.lo)
      hi == num.hi + mid \div Pow2(Limb.mid)
  IN IF hi = Pow2(Limb.hi)
       THEN [hi |-> Pow2(Limb.hi - 1), mid |-> 0, lo |-> 0, exp |-> num.exp + 1]
       ELSE [hi |-> hi, mid |-> mid % Pow2(Limb.mid),
             lo |-> lo % Pow2(Limb.lo), exp |-> num.exp]

\* round to nearest, ties to even: down is the Number just below the exact
\* value, of which left / whole is the part that down leaves out
RoundNearest(down, left, whole) ==
  IF 2 * left > whole \/ (2 * left = whole /\ down.lo % 2 = 1)
    THEN RoundUp(down) ELSE down

RECURSIVE Doublings(_, _)
\* how often r is doubled before it reaches t
Doublings(r, t) == IF r < t THEN 1 + Doublings(2 * r, t) ELSE 0

\* a / b for integers 0 < a <= b
NumberDivide(a, b) ==
  LET z == Doublings(a, b)
      f == a * Pow2(z) - b
      hi == (f * Pow2(Limb.hi - 1)) \div b
      fHi == (f * Pow2(Limb.hi - 1)) % b
      mid == (fHi * Pow2(Limb.mid)) \div b
      fMid == (fHi * Pow2(Limb.mid)) % b
      lo == (fMid * Pow2(Limb.lo)) \div b
      fLo == (fMid * Pow2(Limb.lo)) % b
  IN RoundNearest([hi |-> Pow2(Limb.hi - 1) + hi, mid |-> mid, lo |-> lo,
                   exp |-> 0 - z], fLo, b)

RECURSIVE BitLength(_)
\* the number of binary digits of a natural number
BitLength(n) == IF n = 0 THEN 0 ELSE 1 + BitLength(n \div 2)

\* num * k for an integer 1 <= k < 2^12
NumberTimes(num, k) ==
  LET pLo == num.lo * k
      pMid == num.mid * k + pLo \div Pow2(Limb.lo)
      pHi == num.hi * k + pMid \div Pow2(Limb.mid)
      mid == pMid % Pow2(Limb.mid)
      lo == pLo % Pow2(Limb.lo)
      s == BitLength(pHi) - Limb.hi
      down == [hi |-> pHi \div Pow2(s),
               mid |-> (pHi % Pow2(s)) * Pow2(Limb.mid - s) + mid \div Pow2(s),
               lo |-> (mid % Pow2(s)) * Pow2(Limb.lo - s) + lo \div Pow2(s),
               exp |-> num.exp + s]
  IN RoundNearest(down, lo % Pow2(s), Pow2(s))

\* Math.round of a Number below 2^17: the nearest integer, a fraction of
\* one half rounds up
MathRound(num) ==
  LET n == num.exp + 1 IN
  IF n < 0 THEN 0
  ELSE num.hi \div Pow2(Limb.hi - n) + ((num.hi \div Pow2(Limb.hi - n - 1)) % 2)

\* line 242: totalVotes > 0 ? Math.round((option.votes / totalVotes) * 100) : 0
Percentage(count, totalVotes) ==
  IF totalVotes > 0
    THEN IF count = 0 THEN 0
         ELSE MathRound(NumberTimes(NumberDivide(count, totalVotes), 100))
    ELSE 0

\* ------------------------------- GET /polls/{id}/vote (vote/route.ts)
RECURSIVE SumVotes(_)
\* line 236: options.reduce((sum, option) => sum + option.votes, 0)
SumVotes(rows) ==
  IF rows = <<>> THEN 0 ELSE rows[1].votes + SumVotes(Tail(rows))

\* lines 239-242: every option with its percentage
WithPercentages(rows) ==
  [i \in DOMAIN rows |->
     [id |-> rows[i].id, votes |-> rows[i].votes,
      percentage |-> Percentage(rows[i].votes, SumVotes(rows))]]

\* lines 204-218: the poll read
GetVoteBegin(r, pollIds) ==
  /\ Arrives(r)
  /\ \E p \in pollIds, out \in Outs :
       /\ Charge(out)
       /\ LET q == [IdleReq EXCEPT !.kind = "getVote", !.pollId = p,
                                   !.dbCalls = 1]
          IN rq' = [rq EXCEPT ![r] =
               IF out = "throw" THEN Caught(q)
               ELSE IF out = "error" \/ p \notin DOMAIN polls
                 THEN Respond(q, 404, "Poll not found")
               ELSE [q EXCEPT !.pc = "readTallies"]]
  /\ UNCHANGED <<db, client>>

\* lines 220-255: the options by descending counter, totals and percentages
GetVoteOptions(r) ==
  /\ rq[r].pc = "readTallies"
  /\ \E out \in Outs :
       /\ Charge(out)
       /\ LET q == [rq[r] EXCEPT !.dbCalls = @ + 1] IN
          IF out = "throw" THEN rq' = [rq EXCEPT ![r] = Caught(q)]
          ELSE IF out = "error"
            THEN rq' = [rq EXCEPT ![r] =
                          Respond(q, 500, "Failed to fetch poll results")]
          ELSE \E s \in OrderedByVotes(rq[r].pollId) :
                 rq' = [rq EXCEPT ![r] =
                          Respond([q EXCEPT
                                     !.total = SumVotes(ResultRows(s)),
                                     !.results = WithPercentages(ResultRows(s))],
                                  200, "")]
  /\ UNCHANGED <<db, client>>

\* ------------------------------------- GET /polls (polls/route.ts)
\* options: poll_options (id, votes): the embedded rows of one poll, in an
\* order the store chooses
EmbeddedOptions(p) ==
  LET ids == OptionsOf(p)
      n == Cardinality(ids)
  IN {s \in [1 .. n -> ids] : \A i, j \in 1 .. n : i # j => s[i] # s[j]}

\* lines 207-250: the active polls, each with the sum of its counters
GetPolls(r) ==
  /\ Arrives(r)
  /\ \E out \in Outs :
       /\ Charge(out)
       /\ LET q == [IdleReq EXCEPT !.kind = "getPolls", !.dbCalls = 1] IN
          IF out = "throw" THEN rq' = [rq EXCEPT ![r] = Caught(q)]
          ELSE IF out = "error"
            THEN rq' = [rq EXCEPT ![r] = Respond(q, 500, "Failed to fetch polls")]
          ELSE \E emb \in [ListedPolls -> UNION {EmbeddedOptions(p) : p \in ListedPolls}] :
                 /\ \A p \in ListedPolls : emb[p] \in EmbeddedOptions(p)
                 /\ rq' = [rq EXCEPT ![r] =
                      Respond([q EXCEPT !.results =
                                 [p \in ListedPolls |->
                                    [total_votes |-> SumVotes(ResultRows(emb[p]))]]],
                              200, "")]
  /\ UNCHANGED <<db, client>>

\* --------------------- GET /polls/{id}/results (results/route.ts)
\* lines 16-25: authentication
ResultsGate(q, out) ==
  LET tok == StripBearer(q.hdr) IN
  IF Falsy(tok) THEN Respond(q, 401, "No token provided")
  ELSE LET q1 == [q EXCEPT !.authCalls = @ + 1] IN
       IF out = "throw" THEN Caught(q1)
       ELSE IF GetUser(tok, out) = 0 THEN Respond(q1, 401, "Invalid token")
       ELSE [q1 EXCEPT !.userId = GetUser(tok, out), !.pc = "readRows"]

GetResultsBegin(r, hdrs, pollIds) ==
  /\ Arrives(r)
  /\ \E h \in hdrs, p \in pollIds, out \in Outs :
       /\ rq' = [rq EXCEPT ![r] =
                ResultsGate([IdleReq EXCEPT !.kind = "getResults", !.hdr = h,
                                            !.pollId = p], out)]
       /\ ChargeCall(r, out)
  /\ UNCHANGED <<db, client>>

\* lines 37-45: poll_options (id, text, votes (id, user_id, created_at)):
\* every option with the Vote rows that reference it
VoteRowsOf(o) == {v \in votes : v.option_id = o}

RECURSIVE SumVoteCounts(_)
\* line 55: reduce((sum, option) => sum + option.votes.length, 0)
SumVoteCounts(rows) ==
  IF rows = <<>> THEN 0 ELSE rows[1].vote_count + SumVoteCounts(Tail(rows))

\* lines 57-62: optionsWithStats, in the order of the embedded rows
OptionsWithStats(s) ==
  LET counted == [i \in DOMAIN s |->
                    [id |-> s[i], vote_count |-> Cardinality(VoteRowsOf(s[i]))]]
  IN [i \in DOMAIN s |->
        [id |-> s[i], vote_count |-> counted[i].vote_count,
         percentage |-> Percentage(counted[i].vote_count, SumVoteCounts(counted))]]

RECURSIVE InsertByVoteCount(_, _)
\* x placed behind every row that does not have fewer votes
InsertByVoteCount(x, rows) ==
  IF rows = <<>> THEN <<x>>
  ELSE IF rows[1].vote_count >= x.vote_count
    THEN <<rows[1]>> \o InsertByVoteCount(x, Tail(rows))
  ELSE <<x>> \o rows

RECURSIVE SortByVoteCount(_, _)
\* line 65: sort((a, b) => b.vote_count - a.vote_count); Array.prototype.sort
\* is stable, rows of equal count keep the order they came in
SortByVoteCount(rows, sorted) ==
  IF rows = <<>> THEN sorted
  ELSE SortByVoteCount(Tail(rows), InsertByVoteCount(rows[1], sorted))

\* lines 27-82: one read of the poll with its options and their votes
GetResultsRead(r) ==
  /\ rq[r].pc = "readRows"
  /\ \E out \in Outs :
       /\ Charge(out)
       /\ LET q == [rq[r] EXCEPT !.dbCalls = @ + 1] IN
          IF out = "throw" THEN rq' = [rq EXCEPT ![r] = Caught(q)]
          ELSE IF out = "error" \/ rq[r].pollId \notin DOMAIN polls
            THEN rq' = [rq EXCEPT ![r] = Respond(q, 404, "Poll not found")]
          ELSE \E s \in EmbeddedOptions(rq[r].pollId) :
                 rq' = [rq EXCEPT ![r] =
                          Respond([q EXCEPT
                                     !.total = SumVoteCounts(OptionsWithStats(s)),
                                     !.results = SortByVoteCount(OptionsWithStats(s), <<>>)],
                                  200, "")]
  /\ UNCHANGED <<db, client>>

\* ------------------------------------ GET /health (health/route.ts)
\* the message texts a failure of the store may carry
ErrorTexts == {"connection refused", "relation polls does not exist"}

\* the text of the outcome of a call
TextsOf(out) == IF out = "ok" THEN {""} ELSE ErrorTexts

\* a probe whose exception reaches the framework
Health_uncaught(r) ==
  /\ Arrives(r)
  /\ \E out \in Outs :
       /\ Charge(out)
       /\ \E text \in TextsOf(out) :
            LET q == [IdleReq EXCEPT !.kind = "health", !.dbCalls = 1,
                                     !.detail = text] IN
            rq' = [rq EXCEPT ![r] =
                     IF out = "ok" THEN Respond(q, 200, "healthy")
                     ELSE IF out = "error" THEN Respond(q, 503, "unhealthy")
                     ELSE Respond(q, 500, "")]
  /\ UNCHANGED <<db, client>>

\* lines 8-64: one round trip to the store; 200 healthy, else 503 unhealthy
\* with error.message in the body (lines 28 and 59)
Health(r) ==
  /\ Arrives(r)
  /\ \E out \in Outs :
       /\ Charge(out)
       /\ \E text \in TextsOf(out) :
            LET q == [IdleReq EXCEPT !.kind = "health", !.dbCalls = 1,
                                     !.detail = text] IN
            rq' = [rq EXCEPT ![r] =
                     IF out = "ok" THEN Respond(q, 200, "healthy")
                     ELSE Respond(q, 503, "unhealthy")]
  /\ UNCHANGED <<db, client>>

\* --------------------- PollVotingManager (api-client-examples.ts)
\* the option identifiers the page hands to selectOption
OptionChoices == {"", "junk", "uuid-a", "uuid-b"}

\* uuidRegex.test(id), over the identifiers the page uses
uuidRegex(id) == id \in {"uuid-a", "uuid-b"}

\* !this.state.selectedOptionId
NoSelection(st) == st.selectedOptionId = null \/ st.selectedOptionId = ""

\* api-client.ts: castVote and getPollResults send their request only for
\* identifiers that pass the checks and with a stored token; otherwise the
\* promise they return is rejected
Sends(ids, hasToken) == hasToken /\ \A id \in ids : uuidRegex(id)

\* what the awaited promise can settle to: the parsed body of a 2xx
\* response (success true or false), or a rejection with an ApiError
Settlements(c, bodies) == IF call[c].sent THEN bodies \cup {"rejected"}
                                          ELSE {"rejected"}

\* lines 440-445: the catch block; an ApiError is a plain object, not an
\* Error, so the message is the fixed one
SubmitCaught(st) ==
  [st EXCEPT !.error = "An unexpected error occurred", !.isVoting = FALSE]

\* return from submitVote
Return(c, v) == [call EXCEPT ![c] = [@ EXCEPT !.pc = "returned", !.value = v]]

\* lines 410-412
selectOption(optionId) ==
  /\ state' = [state EXCEPT !.selectedOptionId = optionId]
  /\ UNCHANGED <<db, rq, budget, call>>

\* lines 414-424: submitVote up to its first await; the request of castVote
\* goes out inside this step
submitVote(c) ==
  /\ call[c].pc = "idle"
  /\ IF c = 1 THEN TRUE ELSE call[c - 1].pc # "idle"
  /\ IF NoSelection(state)
       THEN /\ state' = [state EXCEPT !.error = "Please select an option"]
            /\ call' = Return(c, FALSE)
       ELSE \E hasToken \in BOOLEAN :
              LET sent == Sends({state.pollId, state.selectedOptionId}, hasToken)
              IN /\ state' = [state EXCEPT !.isVoting = TRUE, !.error = null]
                 /\ call' = [call EXCEPT ![c] =
                               [@ EXCEPT !.pc = "castVote", !.sent = sent,
                                         !.requests = IF sent THEN 1 ELSE 0]]
  /\ UNCHANGED <<db, rq, budget>>

\* lines 424-445: castVote has settled; on success getPollResults is called
\* and its request goes out inside this step
submitVoteCast(c) ==
  /\ call[c].pc = "castVote"
  /\ \E result \in Settlements(c, {"success", "failure"}), hasToken \in BOOLEAN :
       IF result = "success"
         THEN LET sent == Sends({state.pollId}, hasToken)
              IN /\ state' = [state EXCEPT !.hasVoted = TRUE, !.isVoting = FALSE]
                 /\ call' = [call EXCEPT ![c] =
                               [@ EXCEPT !.pc = "getPollResults", !.sent = sent,
                                         !.requests = @ + IF sent THEN 1 ELSE 0]]
       ELSE IF result = "failure"
         THEN /\ state' = [state EXCEPT !.error = "message", !.isVoting = FALSE]
              /\ call' = Return(c, FALSE)
       ELSE /\ state' = SubmitCaught(state)
            /\ call' = Return(c, FALSE)
  /\ UNCHANGED <<db, rq, budget>>

\* lines 431-445: getPollResults has settled
submitVoteResults(c) ==
  /\ call[c].pc = "getPollResults"
  /\ \E result \in Settlements(c, {"data"}) :
       IF result = "data"
         THEN /\ state' = [state EXCEPT !.results = "data"]
              /\ call' = Return(c, TRUE)
         ELSE /\ state' = SubmitCaught(state)
              /\ call' = Return(c, FALSE)
  /\ UNCHANGED <<db, rq, budget>>

\* ------------------------------------------------ the owner of a poll
\* policy polls_owner_full_access (FOR ALL): the owner clears is_active
DeactivatePoll(p) ==
  /\ p \in DOMAIN polls
  /\ polls[p].is_active
  /\ polls' = [polls EXCEPT ![p].is_active = FALSE]
  /\ UNCHANGED <<poll_options, votes, legacy_votes, audit_logs, rq, budget,
                 client>>

\* the delete without its trigger
decrement_vote_count_lost(opts, gone) == opts

\* AFTER DELETE ON votes FOR EACH ROW: votes = votes - 1 WHERE id = OLD.option_id
decrement_vote_count(opts, gone) ==
  [o \in DOMAIN opts |->
     [opts[o] EXCEPT !.votes = @ - Cardinality({v \in gone : v.option_id = o})]]

\* policy polls_owner_full_access (FOR ALL): the owner deletes the poll;
\* ON DELETE CASCADE removes its options and the votes that reference them
DeletePoll(p) ==
  /\ p \in DOMAIN polls
  /\ LET keptOptions == {o \in DOMAIN poll_options : poll_options[o].poll_id # p}
         gone == {v \in votes : v.poll_id = p \/ v.option_id \notin keptOptions}
         counted == decrement_vote_count(poll_options, gone)
     IN /\ polls' = [q \in DOMAIN polls \ {p} |-> polls[q]]
        /\ poll_options' = [o \in keptOptions |-> counted[o]]
        /\ votes' = votes \ gone
  /\ UNCHANGED <<legacy_votes, audit_logs, rq, budget, client>>

\* CONSTRAINT check_votes_non_negative CHECK (votes >= 0)
check_votes_non_negative(opts) == \A o \in DOMAIN opts : opts[o].votes >= 0

\* the identifier of the row that INSERT INTO votes stores for (poll, voter)
StoredVoteId(p, u) == 100 + 10 * p + u

\* INSERT INTO votes, issued against the store directly: the row may name
\* any stored poll and any stored option (the two references are separate),
\* it passes the unique index, and the AFTER INSERT trigger counts it
InsertVoteRow(p, o, u) ==
  LET row == [id |-> StoredVoteId(p, u), poll_id |-> p, option_id |-> o,
              user_id |-> u]
  IN /\ unique_user_poll_vote(votes, row)
     /\ VoteReferencesHold(row)
     /\ votes' = votes \cup {row}
     /\ poll_options' = increment_vote_count(poll_options, row)
     /\ UNCHANGED <<polls, legacy_votes, audit_logs, rq, budget, client>>

\* DELETE FROM votes WHERE id = v.id: the AFTER DELETE trigger runs inside
\* the statement, and the statement is refused when the trigger's update
\* breaks check_votes_non_negative
DeleteVote(v) ==
  /\ v \in votes
  /\ check_votes_non_negative(decrement_vote_count(poll_options, {v}))
  /\ votes' = votes \ {v}
  /\ poll_options' = decrement_vote_count(poll_options, {v})
  /\ UNCHANGED <<polls, legacy_votes, audit_logs, rq, budget, client>>

\* DELETE FROM poll_options WHERE id = o: ON DELETE CASCADE removes the
\* votes that reference the option, and each removed vote fires the trigger
DeleteOption(o) ==
  /\ o \in DOMAIN poll_options
  /\ LET gone == {v \in votes : v.option_id = o}
         counted == decrement_vote_count(poll_options, gone)
     IN /\ votes' = votes \ gone
        /\ poll_options' = [x \in DOMAIN poll_options \ {o} |-> counted[x]]
  /\ UNCHANGED <<polls, legacy_votes, audit_logs, rq, budget, client>>

\* --------------------------------------------------- specifications
VoteStep(r) ==
  \/ VoteReadPoll(r)
  \/ VoteReadOption(r)
  \/ VoteInsert(r)
  \/ VoteAudit(r)
  \/ VoteResults(r)

CreateStep(r) ==
  \/ CreateInsertPoll(r)
  \/ CreateInsertOptions(r)
  \/ CreateAudit(r)

BodyStep(r) ==
  \/ BodyInsert(r)
  \/ BodyAudit(r)

OwnerStep == \E p \in DOMAIN polls : DeactivatePoll(p) \/ DeletePoll(p)

\* authenticated, well-formed requests that create polls and vote on them,
\* running concurrently
Next ==
  \/ \E r \in 1 .. NumReq :
       \/ VoteBegin(r, GoodHeaders, ListedPolls, DOMAIN poll_options)
       \/ CreateBegin(r, {BearerOf(1)}, ExactPayload, {0}, {TRUE})
       \/ VoteStep(r)
       \/ CreateStep(r)
  \/ OwnerStep

Spec == Init /\ [][Next]_vars

\* the runtime resumes a handler when the call it awaits has returned; the
\* store answers every call but the audit write, which may stay pending
HandlerProgress ==
  \A r \in 1 .. NumReq :
    /\ WF_vars(VoteReadPoll(r)) /\ WF_vars(VoteReadOption(r))
    /\ WF_vars(VoteInsert(r)) /\ WF_vars(VoteResults(r))
    /\ WF_vars(CreateInsertPoll(r)) /\ WF_vars(CreateInsertOptions(r))

SpecPending == Init /\ [][Next]_vars /\ HandlerProgress

\* the same, with an audit write that always returns
SpecReturning ==
  /\ SpecPending
  /\ \A r \in 1 .. NumReq : WF_vars(VoteAudit(r)) /\ WF_vars(CreateAudit(r))

\* authenticated, well-formed votes through both vote endpoints
NextBoth ==
  \/ \E r \in 1 .. NumReq :
       \/ VoteBegin(r, GoodHeaders, ListedPolls, DOMAIN poll_options)
       \/ BodyBegin(r, GoodHeaders, {TRUE})
       \/ VoteStep(r)
       \/ BodyStep(r)
  \/ OwnerStep

SpecBoth == Init /\ [][NextBoth]_vars

\* every kind of header and body at the request gate
NextGate ==
  \/ \E r \in 1 .. NumGate :
       \/ VoteBegin(r, AllHeaders, DOMAIN polls, {0} \cup DOMAIN poll_options)
       \/ CreateBegin(r, AllHeaders, PlainPayloads, ContentLengths, BOOLEAN)
       \/ VoteStep(r)
       \/ CreateStep(r)
  \/ OwnerStep

SpecGate == InitGate /\ [][NextGate]_vars

\* votes through the body-keyed endpoint against a store whose calls may
\* fail
NextBody ==
  \E r \in 1 .. NumReq :
    \/ BodyBegin(r, AllHeaders, BOOLEAN)
    \/ BodyStep(r)

SpecBody == InitGate /\ [][NextBody]_vars

\* two active polls on which nobody has voted yet
UnvotedPolls == [p \in DOMAIN SeedPolls |-> [SeedPolls[p] EXCEPT !.is_active = TRUE]]

UnvotedOptions == [o \in DOMAIN SeedOptions |-> [SeedOptions[o] EXCEPT !.votes = 0]]

InitVoters ==
  /\ polls = UnvotedPolls
  /\ poll_options = UnvotedOptions
  /\ votes = {}
  /\ legacy_votes = {}
  /\ audit_logs = {}
  /\ rq = [r \in Slots |-> IdleReq]
  /\ Constructed
  /\ budget = 0

\* concurrent votes of every voter on every poll, for every option
NextVoters ==
  \E r \in 1 .. NumReq :
    \/ VoteBegin(r, GoodHeaders, DOMAIN polls, DOMAIN poll_options)
    \/ VoteStep(r)

SpecVoters == InitVoters /\ [][NextVoters]_vars

\* readers through both result paths while votes are cast and polls are
\* deactivated or deleted
NextReadWrite ==
  \/ \E r \in 1 .. NumReq :
       \/ VoteBegin(r, GoodHeaders, ListedPolls, DOMAIN poll_options)
       \/ VoteStep(r)
       \/ GetVoteBegin(r, DOMAIN polls)
       \/ GetVoteOptions(r)
       \/ GetResultsBegin(r, {BearerOf(1)}, DOMAIN polls)
       \/ GetResultsRead(r)
  \/ OwnerStep

SpecReadWrite == Init /\ [][NextReadWrite]_vars

\* POST /polls with payloads of every size, with and without Content-Length
NextSize ==
  \E r \in 1 .. NumGate :
    \/ CreateBegin(r, AllHeaders, PayloadSizes, ContentLengths, BOOLEAN)
    \/ CreateStep(r)

SpecSize == InitGate /\ [][NextSize]_vars

\* a store in which c1 and c2 voters have voted for the two options of the
\* active poll 1; poll 2 is inactive and has no votes
TalliedVotes(c1, c2) ==
  {[id |-> 0 - u, poll_id |-> 1, option_id |-> IF u <= c1 THEN 1 ELSE 2,
    user_id |-> u] : u \in 1 .. (c1 + c2)}

Tallied(maxCount) ==
  /\ polls = SeedPolls
  /\ legacy_votes = {}
  /\ audit_logs = {}
  /\ rq = [r \in Slots |-> IdleReq]
  /\ Constructed
  /\ \E c1, c2 \in 0 .. maxCount :
       /\ poll_options = (1 :> [poll_id |-> 1, votes |-> c1]) @@
                         (2 :> [poll_id |-> 1, votes |-> c2]) @@
                         (3 :> [poll_id |-> 2, votes |-> 0])
       /\ votes = TalliedVotes(c1, c2)

\* one reader of the tallies of a poll that has received up to MaxCount
\* votes per option
InitTally == Tallied(MaxCount) /\ budget = 0

NextTally ==
  \/ GetVoteBegin(1, {1, 2, 9})
  \/ GetVoteOptions(1)
  \/ GetPolls(1)

SpecTally == InitTally /\ [][NextTally]_vars

\* concurrent readers through every read path, against a store whose calls
\* may fail
InitRead == Tallied(MaxSeedVotes) /\ budget = MaxFailures

NextRead ==
  \E r \in 1 .. NumReq :
    \/ GetVoteBegin(r, {1, 9})
    \/ GetVoteOptions(r)
    \/ GetResultsBegin(r, {NoHeader, BearerOf(1)}, {1, 9})
    \/ GetResultsRead(r)
    \/ GetPolls(r)
    \/ Health(r)

SpecRead == InitRead /\ [][NextRead]_vars

\* the same readers, each of which may meet a failure of the store
InitFaults == Tallied(MaxSeedVotes) /\ budget = NumReq

SpecFaults == InitFaults /\ [][NextRead]_vars

\* the identifiers of n new option rows, after the ones in use
FreshOptionIds(n) ==
  LET used == DOMAIN poll_options
      top == CHOOSE m \in used : \A o \in used : o <= m
  IN (top + 1) .. (top + n)

\* part_001 lines 84-91, policy insert_poll_options: the owner of a poll
\* inserts n option rows in one statement; the trigger runs for each row and
\* one refusal aborts the statement
InsertPollOptions(p, n) ==
  /\ p \in DOMAIN polls
  /\ validate_poll_options(p, n)
  /\ poll_options' = poll_options @@
       [o \in FreshOptionIds(n) |-> [poll_id |-> p, votes |-> 0]]
  /\ UNCHANGED <<polls, votes, legacy_votes, audit_logs, rq, budget, client>>

NextOptions == \E p \in DOMAIN SeedPolls, n \in 1 .. MaxRows :
                 InsertPollOptions(p, n)

SpecOptions == Init /\ [][NextOptions]_vars

\* the validation of the bodies of POST /polls
NextValidate == ReceivePoll(1) \/ ValidatePoll(1)

SpecValidate == Init /\ [][NextValidate]_vars

\* vote requests without and with a credential and with every body, the
\* unparseable one included, while calls fail and the owner deactivates or
\* deletes polls
NextAnswer ==
  \/ \E r \in 1 .. NumGate :
       \/ VoteBegin(r, {NoHeader} \cup GoodHeaders, DOMAIN polls,
                    {NotJson, 0} \cup DOMAIN poll_options)
       \/ VoteStep(r)
  \/ OwnerStep

\* every call to the verifier and to the store returns or throws: a handler
\* that waits for a call takes its next step
CallsReturn ==
  \A r \in 1 .. NumGate :
    /\ WF_vars(VoteReadPoll(r))
    /\ WF_vars(VoteReadOption(r))
    /\ WF_vars(VoteInsert(r))
    /\ WF_vars(VoteAudit(r))
    /\ WF_vars(VoteResults(r))

SpecAnswer == InitGate /\ [][NextAnswer]_vars /\ CallsReturn

\* the page selects options and calls submitVote, also while an earlier
\* call awaits its response
NextClient ==
  \/ \E optionId \in OptionChoices : selectOption(optionId)
  \/ \E c \in Calls : submitVote(c) \/ submitVoteCast(c) \/ submitVoteResults(c)

SpecClient == Init /\ [][NextClient]_vars

\* a page that calls submitVote only after the previous call has returned
NextOneCall ==
  \/ \E optionId \in OptionChoices : selectOption(optionId)
  \/ \E c \in Calls :
       \/ /\ \A d \in Calls : call[d].pc \in {"idle", "returned"}
          /\ submitVote(c)
       \/ submitVoteCast(c)
       \/ submitVoteResults(c)

SpecOneCall == Init /\ [][NextOneCall]_vars

\* the store alone: votes are inserted and deleted, options and polls are
\* removed, in any order
NextCounters ==
  \/ \E p \in DOMAIN polls, o \in DOMAIN poll_options, u \in Users :
       InsertVoteRow(p, o, u)
  \/ \E v \in votes : DeleteVote(v)
  \/ \E o \in DOMAIN poll_options : DeleteOption(o)
  \/ \E p \in DOMAIN polls : DeletePoll(p)

SpecCounters == Init /\ [][NextCounters]_vars

\* ------------------------------------------------------------ properties
AllPollIds == DOMAIN SeedPolls \cup {NewPollId(r) : r \in Slots}

\* the vote requests of voter u for poll p that passed authentication
VotesBy(p, u) ==
  {r \in Slots : rq[r].kind = "vote" /\ rq[r].pollId = p /\ rq[r].userId = u}

Succeeded(r) == rq[r].pc = "done" /\ rq[r].status = 201

Conflicted(r) == rq[r].pc = "done" /\ rq[r].status = 409

HadVoted(p, u) == \E v \in SeedVotes : v.poll_id = p /\ v.user_id = u

\* C1: of the concurrent vote requests of one voter for one poll, a voter
\* who had not voted on it before, at most one inserts a Vote row, and once
\* all of them have been answered with 201 or 409 exactly one was answered
\* 201 and all the others 409
C1_ExactlyOneSuccess ==
  \A p \in AllPollIds, u \in Users :
    ~HadVoted(p, u) =>
      /\ Cardinality({r \in VotesBy(p, u) : rq[r].inserted}) <= 1
      /\ (/\ VotesBy(p, u) # {}
          /\ \A r \in VotesBy(p, u) : Succeeded(r) \/ Conflicted(r))
         => Cardinality({r \in VotesBy(p, u) : Succeeded(r)}) = 1

\* all NumReq requests are votes of user 1 on poll 1, for both options of
\* the poll, one answered 201 and every other one 409
C1_Witness ==
  /\ VotesBy(1, 1) = 1 .. NumReq
  /\ {rq[r].optionId : r \in 1 .. NumReq} = {1, 2}
  /\ \E r \in 1 .. NumReq :
       /\ Succeeded(r)
       /\ \A r2 \in (1 .. NumReq) \ {r} : Conflicted(r2)

\* C2: at most one Vote row per (poll, voter), in the votes relation of
\* either vote endpoint
C2_OneVotePerPollAndVoter ==
  /\ \A v, w \in votes :
       (v.poll_id = w.poll_id /\ v.user_id = w.user_id) => v = w
  /\ \A v, w \in legacy_votes :
       (v.poll_id = w.poll_id /\ v.user_id = w.user_id) => v = w

\* the body-keyed endpoint has stored a voter's vote and refused the
\* voter's second one, while the votes relation of the other endpoint holds
\* a row
C2_Witness ==
  \E r, r2 \in Slots :
    /\ rq[r].kind = "bodyvote" /\ Succeeded(r) /\ LegacyRow(r) \in legacy_votes
    /\ rq[r2].kind = "bodyvote" /\ Conflicted(r2)
    /\ rq[r2].pollId = rq[r].pollId /\ rq[r2].userId = rq[r].userId
    /\ votes # {}

\* C3: every option's stored counter equals the number of Vote rows that
\* reference the option
C3_CounterEqualsRows ==
  \A o \in DOMAIN poll_options :
    poll_options[o].votes = Cardinality({v \in votes : v.option_id = o})

\* a vote on an option created by POST /polls has been counted while
\* another request was in flight
C3_Witness ==
  \E r, r2 \in Slots :
    /\ rq[r].kind = "vote" /\ rq[r].inserted
    /\ rq[r].optionId \in DOMAIN poll_options
    /\ rq[r].optionId \notin DOMAIN SeedOptions
    /\ poll_options[rq[r].optionId].votes = 1
    /\ rq[r2].pc \notin {"idle", "done"}

\* C4 as stated: a resubmission of a vote that was answered 409 is
\* answered 409 again
C4_AlwaysConflictAgain ==
  \A r \in Slots :
    (rq[r].resubmits /\ rq[r].pc = "done") => rq[r].status = 409

\* C4: a resubmission of a vote that was answered 409 never inserts a row
\* and is never answered 201; it is answered 409 again unless the poll was
\* deactivated or deleted in between, and then it is answered 400 or 404
C4_NeverFlipsToSuccess ==
  \A r \in Slots :
    rq[r].resubmits =>
      /\ ~rq[r].inserted
      /\ rq[r].status # 201
      /\ rq[r].pc = "done" =>
           \/ rq[r].status = 409
           \/ /\ rq[r].status \in {400, 404}
              /\ rq[r].pollId \notin ListedPolls

\* a resubmission has been answered 409 while the poll was still active
C4_Witness ==
  \E r \in Slots :
    /\ rq[r].resubmits /\ Conflicted(r)
    /\ rq[r].pollId \in ListedPolls

Moves(r) == rq'[r] # rq[r]

C6_ForeignOptionRejected ==
  [][\A r \in Slots :
       (/\ rq[r].pc = "readOption" /\ Moves(r)
        /\ rq[r].optionId \in DOMAIN poll_options
        /\ poll_options[rq[r].optionId].poll_id # rq[r].pollId)
       => /\ rq'[r].pc = "done"
          /\ rq'[r].status = 400
          /\ rq'[r].message = "Invalid option for this poll"
          /\ ~rq'[r].inserted
          /\ votes' = votes
          /\ poll_options' = poll_options]_vars

\* a vote on the active poll 1 for option 3 of poll 2 has been answered
\* 400 "Invalid option for this poll"
C6_Witness ==
  \E r \in Slots :
    /\ rq[r].kind = "vote" /\ rq[r].pc = "done"
    /\ rq[r].pollId = 1 /\ rq[r].optionId = 3
    /\ 1 \in ListedPolls /\ 3 \in DOMAIN poll_options
    /\ rq[r].status = 400 /\ rq[r].message = "Invalid option for this poll"
    /\ rq[r].userId # 0

\* C7: a POST /polls or POST /polls/{id}/vote request answered 400
\* "Validation failed" or 401 has made no call to the store
C7_NoDbBeforeRejection ==
  \A r \in Slots :
    (/\ rq[r].kind \in {"vote", "create"} /\ rq[r].pc = "done"
     /\ \/ rq[r].status = 400 /\ rq[r].message = "Validation failed"
        \/ rq[r].status = 401)
    => rq[r].dbCalls = 0

\* a vote request with the header "Token abc" has been answered 401
C7_Witness ==
  \E r \in Slots :
    /\ rq[r].kind = "vote" /\ rq[r].pc = "done"
    /\ rq[r].hdr = TokenAbc
    /\ rq[r].status = 401 /\ rq[r].dbCalls = 0

\* C8: a request of POST /polls or POST /polls/{id}/vote whose body passes
\* validation and whose credential header has a scheme other than "Bearer "
\* or a token shorter than MinTokenLen is answered 401 without a call to
\* the identity verifier
C8_RejectedWithoutVerifier ==
  \A r \in Slots :
    (/\ rq[r].kind \in {"vote", "create"} /\ rq[r].pc = "done"
     /\ rq[r].valid /\ rq[r].size <= MaxPayload /\ rq[r].clen <= MaxPayload
     /\ rq[r].hdr.scheme # "none"
     /\ rq[r].hdr.scheme # "Bearer " \/ rq[r].hdr.len < MinTokenLen)
    => (rq[r].status = 401 /\ rq[r].authCalls = 0)

\* C9: a failed vote insert is answered by the class of its error, 23505
\* with 409 "You have already voted on this poll", 23503 with 400, a thrown
\* or any other failure with 500, and in each case no Vote row is added, no
\* counter changes and no audit entry is written
C9_InsertFailureClassified ==
  [][\A r \in Slots :
       (rq[r].pc = "insertVote" /\ Moves(r) /\ rq'[r].pc = "done")
       => /\ votes' = votes
          /\ poll_options' = poll_options
          /\ audit_logs' = audit_logs
          /\ ~rq'[r].inserted
          /\ budget' < budget => rq'[r].status = 500
          /\ (budget' = budget /\ ~unique_user_poll_vote(votes, VoteRow(r)))
             => /\ rq'[r].status = 409
                /\ rq'[r].message = "You have already voted on this poll"
          /\ (/\ budget' = budget
              /\ unique_user_poll_vote(votes, VoteRow(r))
              /\ ~VoteReferencesHold(VoteRow(r)))
             => rq'[r].status = 400]_vars

\* a vote whose poll was deleted between the guards and the insert has been
\* answered 400 "Invalid poll or option"
C9_Witness ==
  \E r \in Slots :
    /\ rq[r].kind = "vote" /\ rq[r].pc = "done"
    /\ rq[r].status = 400 /\ rq[r].message = "Invalid poll or option"
    /\ rq[r].dbCalls = 3
    /\ \A v \in votes : v.id # r
    /\ audit_logs = {}

\* the handler's locals, position and response, apart from the record of
\* the exceptions it met
Handler(q) == [q EXCEPT !.threw = {}]

\* C10: a failed audit write, error or exception, after the insert of the
\* Vote or Poll rows leaves those rows in place and leaves the handler where
\* a successful audit write leaves it: POST /polls answers 201, POST
\* /polls/{id}/vote reads the tallies and answers 201
C10_AuditFailureInvisible ==
  [][\A r \in Slots :
       /\ (rq[r].pc = "audit" /\ Moves(r) /\ budget' < budget)
          => /\ polls' = polls
             /\ poll_options' = poll_options
             /\ votes' = votes
             /\ audit_logs' = audit_logs
             /\ rq[r].kind = "vote"
                => Handler(rq'[r]) =
                     Handler([rq[r] EXCEPT !.pc = "results", !.dbCalls = @ + 1])
             /\ rq[r].kind = "create"
                => Handler(rq'[r]) =
                     Handler(Respond([rq[r] EXCEPT !.dbCalls = @ + 1],
                                     201, "Poll created successfully!"))
       /\ (rq[r].pc = "results" /\ Moves(r) /\ budget' = budget)
          => /\ rq'[r].status = 201
             /\ rq'[r].message = "Vote submitted successfully!"
             /\ rq'[r].results \in
                  {ResultRows(s) : s \in OrderedByVotes(rq[r].pollId)}]_vars

\* a vote has been answered 201 with its row stored and its audit entry
\* missing
C10_Witness ==
  \E r \in Slots :
    /\ rq[r].kind = "vote" /\ Succeeded(r)
    /\ rq[r].message = "Vote submitted successfully!"
    /\ VoteRow(r) \in votes
    /\ \A e \in audit_logs : e.id # r

\* round(100 * count / total), one half rounding up, in exact arithmetic
ExactPercentage(count, total) ==
  IF total > 0 THEN (200 * count + total) \div (2 * total) ELSE 0

\* C11: the response of GET /polls/{id}/vote carries the sum of the option
\* counts as total, and for each option round(100 * count / total), one half
\* rounding up, or 0 when the total is 0
C11_TotalsAndPercentages ==
  \A r \in Slots :
    (rq[r].kind = "getVote" /\ rq[r].pc = "done" /\ rq[r].status = 200)
    => /\ rq[r].total =
            Cardinality({v \in votes : v.poll_id = rq[r].pollId})
       /\ \A i \in DOMAIN rq[r].results :
            rq[r].results[i].percentage =
              ExactPercentage(rq[r].results[i].votes, rq[r].total)

RECURSIVE CounterSum(_)
\* the sum of the stored counters of a set of options
CounterSum(ids) ==
  IF ids = {} THEN 0
  ELSE LET o == CHOOSE x \in ids : TRUE
       IN poll_options[o].votes + CounterSum(ids \ {o})

\* C18: the response of GET /polls lists exactly the polls whose is_active
\* is true, each with the sum of the stored counters of its options as
\* total_votes
C18_ActivePollsWithTotals ==
  \A r \in Slots :
    (rq[r].kind = "getPolls" /\ rq[r].pc = "done" /\ rq[r].status = 200)
    => /\ DOMAIN rq[r].results = {p \in DOMAIN polls : polls[p].is_active}
       /\ \A p \in DOMAIN rq[r].results :
            rq[r].results[p].total_votes =
              CounterSum({o \in DOMAIN poll_options : poll_options[o].poll_id = p})

\* with counters 5 and 3 on the options of the active poll, and an inactive
\* poll in the store, GET /polls has answered with that one poll and total 8
C18_Witness ==
  \E r \in Slots :
    /\ rq[r].kind = "getPolls" /\ rq[r].pc = "done" /\ rq[r].status = 200
    /\ poll_options[1].votes = 5 /\ poll_options[2].votes = 3
    /\ ~polls[2].is_active
    /\ DOMAIN rq[r].results = {1}
    /\ rq[r].results[1].total_votes = 8

\* the counts of a response of either result read path, in response order
CountsOf(r) ==
  [i \in DOMAIN rq[r].results |->
     IF rq[r].kind = "getVote" THEN rq[r].results[i].votes
     ELSE rq[r].results[i].vote_count]

Answered(r) ==
  rq[r].kind \in {"getVote", "getResults"} /\ rq[r].pc = "done" /\ rq[r].status = 200

\* C19: a response of GET /polls/{id}/vote or GET /polls/{id}/results lists
\* the options by non-increasing count, and two responses of one path for
\* one poll, read from the same store, list the options in the same order
C19_SortedAndDeterministic ==
  /\ \A r \in Slots :
       Answered(r) =>
         \A i, j \in DOMAIN rq[r].results :
           i < j => CountsOf(r)[i] >= CountsOf(r)[j]
  /\ \A r1, r2 \in Slots :
       (/\ Answered(r1) /\ Answered(r2)
        /\ rq[r1].kind = rq[r2].kind /\ rq[r1].pollId = rq[r2].pollId)
       => rq[r1].results = rq[r2].results

\* C20: GET /health answers 200 healthy exactly when its round trip to the
\* store completed without error, and 503 unhealthy when the round trip
\* returned an error or threw
C20_HealthReflectsRoundTrip ==
  [][\A r \in Slots :
       (rq[r].pc = "idle" /\ rq'[r].kind = "health")
       => /\ rq'[r].pc = "done"
          /\ rq'[r].status \in {200, 503}
          /\ rq'[r].status = 200 <=> budget' = budget
          /\ rq'[r].status = 200 <=> rq'[r].message = "healthy"
          /\ rq'[r].status = 503 <=> rq'[r].message = "unhealthy"]_vars

\* one probe has been answered 503 and a later one 200
C20_Witness ==
  \E r1, r2 \in Slots :
    /\ r1 < r2
    /\ rq[r1].kind = "health" /\ rq[r1].status = 503
    /\ rq[r2].kind = "health" /\ rq[r2].status = 200


\* position k of a text lies in a tag: a "<" at or before it with no ">"
\* in between, and a ">" at or after it
InTag(s, k) ==
  \E i \in 1 .. k :
    /\ s[i] = "<"
    /\ \A m \in i .. (k - 1) : s[m] # ">"
    /\ \E j \in k .. Len(s) : s[j] = ">"

\* the characters of a text outside every tag, in their order
Untagged(s) ==
  LET keep == {k \in 1 .. Len(s) : ~InTag(s, k)}
  IN [n \in 1 .. Cardinality(keep) |->
        s[CHOOSE k \in keep : Cardinality({m \in keep : m <= k}) = n]]

Validated(r) == rq[r].pc = "validated"

WithinBounds(data) ==
  /\ Len(data.title) >= TitleMin /\ Len(data.title) <= TitleMax
  /\ Len(data.description) <= DescriptionMax
  /\ Len(data.options) >= OptionsMin /\ Len(data.options) <= OptionsMax
  /\ \A i \in DOMAIN data.options :
       /\ Len(data.options[i]) >= OptionMin
       /\ Len(data.options[i]) <= OptionMax
       /\ Len(trim(data.options[i])) > 0
  /\ \A i, j \in DOMAIN data.options :
       i # j => toLowerCase(data.options[i]) # toLowerCase(data.options[j])

\* C13: the data of every accepted poll are within the bounds of the data
\* model (title of 3 to 200 characters, description of at most 500, 2 to 10
\* options of 1 to 100 characters, non-empty after trimming and pairwise
\* distinct whatever the case), and a body that breaks a bound is rejected.
C13_AcceptedWithinBounds ==
  \A r \in Slots :
    /\ Validated(r) => WithinBounds(rq[r].data)
    /\ (rq[r].kind = "create" /\ rq[r].pc = "done"
          /\ ~WithinBounds([title |-> trim(rq[r].body.title),
                            description |-> rq[r].body.description,
                            options |-> rq[r].body.options])
          => rq[r].status = 400)

\* C14: a request of POST /polls whose payload has more than MaxPayload
\* bytes is answered 413 without validation of its body, without a call to
\* the identity verifier and without a call to the database, with any
\* Content-Length header or none.
C14_LargePayloadRejected ==
  \A r \in Slots :
    (rq[r].kind = "create" /\ rq[r].bytes > MaxPayload)
    => /\ rq[r].pc = "done" /\ rq[r].status = 413
       /\ rq[r].authCalls = 0 /\ rq[r].dbCalls = 0

\* C15: in every state a poll has at most MaxOptionsPerPoll option rows,
\* whatever the inserts of one or several rows that came before.
C15_AtMostTenOptions ==
  \A p \in DOMAIN polls : Cardinality(OptionsOf(p)) <= MaxOptionsPerPoll

\* a request that passed the size limits and the validation of its body and
\* was answered without an authenticated caller
AuthRejected(r) ==
  /\ rq[r].kind \in {"vote", "create"} /\ rq[r].pc = "done"
  /\ rq[r].valid /\ rq[r].size <= MaxPayload /\ rq[r].clen <= MaxPayload
  /\ rq[r].userId = 0

\* the answer of an endpoint to a token the identity verifier refuses
RefusedByVerifier(kind) ==
  LET q == [IdleReq EXCEPT !.kind = kind, !.hdr = BearerJunk, !.valid = TRUE]
  IN IF kind = "create" THEN CreateGate(q, "ok") ELSE VoteGate(q, "ok")

\* C16: a request of POST /polls or POST /polls/{id}/vote turned away at
\* authentication (no header, another scheme, a token too short, a token the
\* verifier refuses, a verifier that cannot be reached) gets the 401 answer
\* of its endpoint to a refused token, the same status and the same message.
C16_AuthRejectionsAlike ==
  \A r \in Slots : AuthRejected(r) =>
    /\ rq[r].status = 401
    /\ rq[r].status = RefusedByVerifier(rq[r].kind).status
    /\ rq[r].message = RefusedByVerifier(rq[r].kind).message

AuditEntriesOf(r) == {e \in audit_logs : e.id = r}

VoteAuditEntries == {e \in audit_logs : e.action = "vote_submitted"}

\* the requests whose Vote row was stored
VoteInserters == {r \in Slots : rq[r].kind = "vote" /\ rq[r].inserted}

\* C17 as stated: an audit entry comes from a request whose insert
\* succeeded, a request answered 400, 401, 404, 409, 413 or 500 has written
\* no audit entry, and there are no more vote audit entries than Vote rows
\* were inserted.
C17_NoAuditOnFailure ==
  /\ \A e \in audit_logs : rq[e.id].inserted
  /\ \A r \in Slots :
       (rq[r].pc = "done" /\ rq[r].status \in {400, 401, 404, 409, 413, 500})
       => AuditEntriesOf(r) = {}
  /\ Cardinality(VoteAuditEntries) <= Cardinality(VoteInserters)

\* the step brings request r to its audit write
ReachesAudit(r) == rq[r].pc # "audit" /\ rq'[r].pc = "audit"

\* C17: a request comes to its audit write only in the step in which its
\* Vote row, or the option rows of the poll it had inserted, are stored;
\* an audit entry is written only by a request at its audit write, for its
\* caller and its poll; a request answered 400, 401, 404, 409 or 413 has
\* written no audit entry, one answered 500 only if it is a vote that failed
\* after its row was stored and its entry written; and there are no more
\* vote audit entries than Vote rows were inserted.
C17_AuditOnlyAfterSuccess ==
  /\ [][\A r \in Slots :
          /\ ReachesAudit(r) =>
               IF rq[r].kind = "vote"
                 THEN VoteRow(r) \in votes' /\ VoteRow(r) \notin votes
                 ELSE /\ rq[r].kind = "create" /\ rq[r].inserted
                      /\ \A o \in DOMAIN OptionsData(r) :
                           /\ o \notin DOMAIN poll_options
                           /\ o \in DOMAIN poll_options'
          /\ \A e \in audit_logs' \ audit_logs :
               e.id = r =>
                 /\ rq[r].pc = "audit" /\ rq[r].inserted
                 /\ e.user_id = rq[r].userId /\ e.target_id = rq[r].pollId
                 /\ e.action = IF rq[r].kind = "vote" THEN "vote_submitted"
                                                     ELSE "poll_created"]_vars
  /\ [](/\ \A e \in audit_logs : e.id \in Slots /\ rq[e.id].inserted
        /\ \A r \in Slots :
             /\ (rq[r].pc = "done" /\ rq[r].status \in {400, 401, 404, 409, 413})
                  => AuditEntriesOf(r) = {}
             /\ (rq[r].pc = "done" /\ rq[r].status = 500
                   /\ AuditEntriesOf(r) # {})
                  => rq[r].kind = "vote" /\ rq[r].inserted
        /\ Cardinality(VoteAuditEntries) <= Cardinality(VoteInserters))

\* a vote whose row was stored and whose audit entry was written, answered
\* 500 because the read of the tallies failed afterwards
C17_Witness ==
  \E r \in Slots :
    /\ rq[r].kind = "vote" /\ rq[r].pc = "done" /\ rq[r].status = 500
    /\ rq[r].inserted
    /\ AuditEntriesOf(r) # {}

\* C21: a request of POST /api/vote whose Vote row was stored is answered
\* 201, whether its audit insert succeeds, returns an error or throws.
C21_BodyVoteAuditInvisible ==
  \A r \in Slots :
    (rq[r].kind = "bodyvote" /\ rq[r].inserted /\ rq[r].pc = "done")
    => rq[r].status = 201

\* C22: a request whose Vote row, or whose poll and options, are stored
\* comes to its 201 response even when its audit write never returns.
C22_RespondsWithoutAudit ==
  \A r \in Slots :
    (rq[r].inserted /\ rq[r].pc = "audit")
      ~> (rq[r].pc = "done" /\ rq[r].status = 201)

\* C23: a request of POST /polls/{id}/vote passes its poll guard only in a
\* step that reads the poll as existing and active, passes its option guard
\* only after that and in a step that reads the option as belonging to the
\* poll, and a Vote row is stored only by a request that passed both; the
\* poll may be deactivated in between, and still no poll holds two Vote
\* rows of one voter.
C23_InsertOnlyAfterGuards ==
  /\ [][\A r \in Slots :
          /\ (rq[r].pc # "readOption" /\ rq'[r].pc = "readOption") =>
               /\ rq[r].pc = "readPoll"
               /\ rq[r].pollId \in DOMAIN polls
               /\ polls[rq[r].pollId].is_active
          /\ (rq[r].pc # "insertVote" /\ rq'[r].pc = "insertVote") =>
               /\ rq[r].pc = "readOption"
               /\ rq[r].optionId \in DOMAIN poll_options
               /\ poll_options[rq[r].optionId].poll_id = rq[r].pollId
          /\ \A v \in votes' \ votes :
               v.id = r => rq[r].pc = "insertVote" /\ v = VoteRow(r)]_vars
  /\ [](\A v1, v2 \in votes :
          (v1.poll_id = v2.poll_id /\ v1.user_id = v2.user_id) => v1 = v2)

\* a vote stored for a poll that its owner deactivated after the guard had
\* read it as active
C23_Witness ==
  \E r \in Slots :
    /\ rq[r].kind = "vote" /\ rq[r].inserted
    /\ VoteRow(r) \in votes
    /\ rq[r].pollId \in DOMAIN polls
    /\ ~polls[rq[r].pollId].is_active

\* the Vote rows stored by requests of POST /polls/{id}/vote
EndpointVotes == {v \in votes : v.id \in Slots}

\* C24: in every state, the option a Vote row of POST /polls/{id}/vote
\* references is a stored option whose parent poll is the poll the row
\* references.
C24_OptionOfSamePoll ==
  \A v \in EndpointVotes :
    /\ v.option_id \in DOMAIN poll_options
    /\ poll_options[v.option_id].poll_id = v.poll_id

\* a vote of the run is stored while options of another poll exist that
\* callers have submitted as well
C24_Witness ==
  \E v \in EndpointVotes :
    /\ v.option_id \in DOMAIN poll_options
    /\ \E r \in Slots :
         /\ rq[r].kind = "vote" /\ rq[r].pollId = v.poll_id
         /\ rq[r].optionId \in DOMAIN poll_options
         /\ poll_options[rq[r].optionId].poll_id # v.poll_id

\* C25: a guard read of POST /polls/{id}/vote ends the request with 404
\* only when no poll has the given id, with 400 "Invalid option for this
\* poll" only when the option is absent or belongs to another poll, and
\* with 500 when the read itself failed (error returned or call thrown).
C25_GuardFaultIsServerFault ==
  [][\A r \in Slots :
       (/\ rq[r].kind = "vote" /\ rq[r].pc \in {"readPoll", "readOption"}
        /\ rq'[r].pc = "done")
       => /\ rq'[r].status = 404 => rq[r].pollId \notin DOMAIN polls
          /\ (rq'[r].status = 400
                /\ rq'[r].message = "Invalid option for this poll")
               => \/ rq[r].optionId \notin DOMAIN poll_options
                  \/ poll_options[rq[r].optionId].poll_id # rq[r].pollId
          /\ budget' < budget => rq'[r].status = 500]_vars

\* C26: the tallies of every 201 response of POST /polls/{id}/vote list the
\* chosen option with a count of at least 1, the caller's vote included.
C26_TalliesIncludeOwnVote ==
  \A r \in Slots :
    (rq[r].kind = "vote" /\ rq[r].pc = "done" /\ rq[r].status = 201)
    => \E i \in DOMAIN rq[r].results :
         /\ rq[r].results[i].id = rq[r].optionId
         /\ rq[r].results[i].votes >= 1

\* the vote requests that have arrived
Voting == {r \in Slots : rq[r].kind = "vote" /\ rq[r].pc # "idle"}

\* no other request is a vote of the same voter on the same poll
Independent(r) ==
  \A r2 \in Voting \ {r} :
    ~(rq[r2].pollId = rq[r].pollId /\ rq[r2].userId = rq[r].userId)

\* the option of the request belongs to its poll
ValidChoice(r) ==
  /\ rq[r].optionId \in DOMAIN poll_options
  /\ poll_options[rq[r].optionId].poll_id = rq[r].pollId

\* C27: a vote that shares its (poll, voter) with no other request, on an
\* active poll and for an option of that poll, is answered 201 and never
\* 409; once all such requests are answered, the Vote rows are exactly the
\* rows of these requests and every option's counter is the number of
\* requests that chose it, whatever the order of their steps.
C27_DistinctVotersIndependent ==
  /\ \A r \in Voting :
       Independent(r) =>
         /\ rq[r].status # 409
         /\ (ValidChoice(r) /\ rq[r].pc = "done")
              => rq[r].status = 201 /\ VoteRow(r) \in votes
  /\ (\A r \in Voting : Independent(r) /\ rq[r].pc = "done")
       => /\ votes = {VoteRow(r) : r \in {x \in Voting : ValidChoice(x)}}
          /\ \A o \in DOMAIN poll_options :
               poll_options[o].votes =
                 Cardinality({r \in Voting : ValidChoice(r) /\ rq[r].optionId = o})

\* two voters have chosen the same option and its counter is 2
C27_Witness ==
  \E r1, r2 \in Voting :
    /\ rq[r1].userId # rq[r2].userId
    /\ rq[r1].optionId = rq[r2].optionId
    /\ rq[r1].pc = "done" /\ rq[r1].status = 201
    /\ rq[r2].pc = "done" /\ rq[r2].status = 201
    /\ poll_options[rq[r1].optionId].votes = 2

\* what a response reports: its total and, per option, count and percentage
ReportOf(q) ==
  [total |-> q.total,
   options |-> {[id |-> q.results[i].id,
                 count |-> IF q.kind = "getVote" THEN q.results[i].votes
                           ELSE q.results[i].vote_count,
                 percentage |-> q.results[i].percentage] :
                  i \in DOMAIN q.results}]

\* the report of GET /polls/{id}/vote on the store as it is
CounterReport(p) ==
  LET rows == WithPercentages(ResultRows(CHOOSE s \in OrderedByVotes(p) : TRUE))
  IN ReportOf([kind |-> "getVote", total |-> SumVotes(rows), results |-> rows])

\* the report of GET /polls/{id}/results on the store as it is
RowReport(p) ==
  LET rows == OptionsWithStats(CHOOSE s \in EmbeddedOptions(p) : TRUE)
  IN ReportOf([kind |-> "getResults", total |-> SumVoteCounts(rows),
               results |-> rows])

\* C28: on every store the run reaches, a 200 response of
\* GET /polls/{id}/vote for a stored poll reports the counts, the total and
\* the percentages that GET /polls/{id}/results computes from the Vote rows
\* of that store, and a 200 response of GET /polls/{id}/results those that
\* GET /polls/{id}/vote computes from the counters.
C28_ReadPathsAgree ==
  [][\A r \in Slots :
       /\ (/\ rq[r].pc = "readTallies" /\ rq'[r].status = 200
           /\ rq[r].pollId \in DOMAIN polls)
          => ReportOf(rq'[r]) = RowReport(rq[r].pollId)
       /\ (rq[r].pc = "readRows" /\ rq'[r].status = 200)
          => ReportOf(rq'[r]) = CounterReport(rq[r].pollId)]_vars

\* both paths have answered for the same poll, with the same total of at
\* least one vote
C28_Witness ==
  \E r1, r2 \in Slots :
    /\ rq[r1].kind = "getVote" /\ rq[r1].status = 200
    /\ rq[r2].kind = "getResults" /\ rq[r2].status = 200
    /\ rq[r1].pollId = rq[r2].pollId
    /\ rq[r1].total = rq[r2].total /\ rq[r1].total > 0

\* C29: a request of POST /polls answered with a status other than 201 has
\* left no poll row and no option row, and a poll row of POST /polls is
\* never stored without its OptionsMin to OptionsMax options.
C29_CreationAllOrNothing ==
  \A r \in Slots :
    rq[r].kind = "create" =>
      /\ (rq[r].pc = "done" /\ rq[r].status # 201)
           => /\ rq[r].pollId \notin DOMAIN polls
              /\ OptionsOf(rq[r].pollId) = {}
      /\ rq[r].pollId \in DOMAIN polls
           => /\ Cardinality(OptionsOf(rq[r].pollId)) >= OptionsMin
              /\ Cardinality(OptionsOf(rq[r].pollId)) <= OptionsMax

\* C30: two requests of one read endpoint with the same header and poll
\* that met the same failure of the store, answered with the same status
\* and message after the same number of calls, have the same response body:
\* the text the failure carried is not in it.
C30_NoStorageDetailEchoed ==
  \A r1, r2 \in Slots :
    (/\ rq[r1].pc = "done" /\ rq[r2].pc = "done"
     /\ rq[r1].kind = rq[r2].kind
     /\ rq[r1].hdr = rq[r2].hdr /\ rq[r1].pollId = rq[r2].pollId
     /\ rq[r1].dbCalls = rq[r2].dbCalls
     /\ rq[r1].status = rq[r2].status /\ rq[r1].message = rq[r2].message)
    => rq[r1].detail = rq[r2].detail


\* C31: after any sequence of vote inserts and vote deletes, cascading
\* deletes from removing a poll or an option included, the counter of every
\* remaining option equals the number of vote rows that reference the
\* option, and no counter is negative
C31_CountersFollowRows ==
  \A o \in DOMAIN poll_options :
    /\ poll_options[o].votes = Cardinality(VoteRowsOf(o))
    /\ poll_options[o].votes >= 0

\* an option has been removed with a vote on it, a vote that was inserted
\* after the start has been deleted again, and a remaining option still
\* carries a vote
C31_Witness ==
  /\ \E o \in DOMAIN SeedOptions : o \notin DOMAIN poll_options
  /\ SeedVotes \cap votes = {}
  /\ \E o \in DOMAIN poll_options : poll_options[o].votes >= 1
  /\ Cardinality(votes) < Cardinality(DOMAIN poll_options)

\* the options stored before and after the step
Remaining == DOMAIN poll_options \cap DOMAIN poll_options'

\* C32: the counter of an existing option changes only in a step that
\* inserts or deletes vote rows, by the number of rows of the option that
\* the step adds or removes; the only handler step that does so is the
\* vote insert, and guard reads, audit writes, result reads and poll
\* creation leave every existing counter as it was
C32_CountersOnlyByTrigger ==
  [][\A o \in Remaining :
       poll_options'[o].votes # poll_options[o].votes
         => /\ votes' # votes
            /\ poll_options'[o].votes - poll_options[o].votes
                 = Cardinality({v \in votes' : v.option_id = o})
                   - Cardinality({v \in votes : v.option_id = o})
            /\ \A r \in Slots :
                 Moves(r) => rq[r].kind = "vote" /\ rq[r].pc = "insertVote"]_vars

\* a vote was counted and its handler ran through the audit write and the
\* result read to 201, while another request created a poll with its
\* options and was answered 201
C32_Witness ==
  \E r, r2 \in Slots :
    /\ rq[r].kind = "vote" /\ rq[r].inserted /\ Succeeded(r)
    /\ rq[r].optionId \in DOMAIN poll_options
    /\ poll_options[rq[r].optionId].votes >= 1
    /\ rq[r2].kind = "create" /\ Succeeded(r2)
    /\ OptionsOf(rq[r2].pollId) # {}

\* the statuses POST /polls/{id}/vote answers with
VoteStatuses == {201, 400, 401, 404, 409, 500}

\* a vote request that has arrived is answered
EventuallyAnswered ==
  \A r \in 1 .. NumGate : (rq[r].kind = "vote") ~> (rq[r].pc = "done")

\* the answer of a request is given once: nothing changes it afterwards
AnsweredOnce ==
  [][\A r \in Slots : rq[r].pc = "done" => rq'[r] = rq[r]]_vars

\* C33 as stated: every vote request is eventually answered, once, with a
\* status in {201, 400, 401, 404, 409, 500}, and an exception thrown at
\* any step of the handler yields 500
C33_EveryThrowIs500 ==
  /\ EventuallyAnswered
  /\ AnsweredOnce
  /\ [](\A r \in Slots :
          (rq[r].kind = "vote" /\ rq[r].pc = "done")
            => /\ rq[r].status \in VoteStatuses
               /\ rq[r].threw # {} => rq[r].status = 500)

\* C33: when every call returns or throws, every vote request is
\* eventually answered, once, with a status in {201, 400, 401, 404, 409,
\* 500}; an exception thrown while parsing the body, by the verifier, by a
\* guard read, by the insert or by the result read answers the request
\* with 500 at that step, and an exception thrown by the audit write alone
\* leaves the answer 201
C33_AnsweredOnceThrowsAbsorbedByAudit ==
  /\ EventuallyAnswered
  /\ AnsweredOnce
  /\ [](\A r \in Slots :
          rq[r].kind = "vote"
            => /\ rq[r].pc # "done" => rq[r].threw \subseteq {"audit"}
               /\ rq[r].pc = "done"
                    => /\ rq[r].status \in VoteStatuses
                       /\ rq[r].threw \ {"audit"} # {} => rq[r].status = 500
                       /\ rq[r].threw = {"audit"} => rq[r].status = 201)

\* a vote was stored, the result read that follows threw, and the request
\* was answered 500
C33_Witness ==
  \E r \in Slots :
    /\ rq[r].kind = "vote" /\ rq[r].pc = "done" /\ rq[r].inserted
    /\ "results" \in rq[r].threw
    /\ rq[r].status = 500
    /\ VoteRow(r) \in votes

\* the invocation returns in this step
Returns(c) == call[c].pc # "returned" /\ call'[c].pc = "returned"

\* C34: when submitVote returns, isVoting is false, and it returns true
\* exactly when it leaves hasVoted = true with error = null; called with
\* no option selected it sets an error, returns false and sends no request
C34_ReturnMatchesState ==
  [][\A c \in Calls :
       Returns(c)
         => /\ ~state'.isVoting
            /\ call'[c].value <=> (state'.hasVoted /\ state'.error = null)
            /\ (call[c].pc = "idle" /\ NoSelection(state))
                 => /\ state'.error # null
                    /\ ~call'[c].value
                    /\ call'[c].requests = 0]_vars

====
